---- MODULE Spec2Model ----
(***************************************************************************)
(* A model of the smoothexit migration engine: the MigrationOrchestrator   *)
(* pipeline (extraction, transformation, validation, loading, rollback),   *)
(* the BaseLoader batch fold it drives, and the run/step bookkeeping.      *)
(*                                                                         *)
(* Strings that the code splits or joins on "_" are modelled as sequences  *)
(* of underscore-free words: "chargebee_customer" is                       *)
(* <<"chargebee", "customer">>, f"{a}_{b}" is a \o b, and None / "" is the *)
(* empty sequence <<>>.                                                    *)
(***************************************************************************)
EXTENDS Integers, Sequences, FiniteSets, TLC

VARIABLES
    config,         \* MigrationConfig of the orchestrator
    mapping,        \* MigrationOrchestrator.mapping (None until resolved)
    registry,       \* SchemaRegistry.schemas: the (service, entity) pairs with a schema
    run,            \* MigrationOrchestrator.run (MigrationRun)
    extracted,      \* MigrationOrchestrator._extracted_data
    transformed,    \* MigrationOrchestrator._transformed_data (insertion ordered)
    loader,         \* MigrationOrchestrator.loader (BaseLoader._created_records)
    pc,             \* position of run_migration
    idx,            \* index of the source / entity mapping / entity being processed
    pos,            \* index of the record, or offset of the batch, inside it
    acc,            \* local list `transformed` of _run_transformation
    queue,          \* local `records_by_entity` of _run_loading
    transform_calls,\* history: the transform_record calls made, in order
    load_calls,     \* history: the Loader.load_batch calls made, in order
    reports,        \* history: number of _save_report calls
    faults,         \* history: collaborator outcomes so far that were not plain success
    last_rollback,  \* history: what the latest rollback() call did and returned
    migration_storage, \* api: the stored migration that the routes read and update
    tasks,          \* api: the run_migration_task coroutines added so far
    source_records, \* TransformEngine: argument source_records of transform_record
    field_mappings, \* TransformEngine: mapping.field_mappings of the argument mapping
    value,          \* TransformEngine: argument value of a transform function
    transform_config, \* TransformEngine: argument config of a transform function
    returned        \* TransformEngine: what the call returned (or that it raised)

\* the state of the orchestrator pipeline
pipeline_vars == <<config, mapping, registry, run, extracted, transformed, loader,
                   pc, idx, pos, acc, queue, transform_calls, load_calls, reports,
                   faults, last_rollback>>

\* the state of the api routes and of their background tasks
api_vars == <<migration_storage, tasks>>

\* the arguments and the result of one TransformEngine call
engine_vars == <<source_records, field_mappings, value, transform_config,
                 returned>>

vars == <<pipeline_vars, api_vars, engine_vars>>

----------------------------------------------------------------------------
(* Bounds of the model *)

MaxRecords == 2         \* source records extracted in one run, over all sources
MaxErrorsBound == 2     \* config.max_errors is 1 or MaxErrorsBound
MaxBatchSize == 2       \* config.batch_size is MaxBatchSize - 1 or MaxBatchSize
MaxRollbacks == 1       \* rollback() calls made on the orchestrator
MaxFaults == 2          \* collaborator outcomes per run other than plain success
MaxDedupRecords == 3    \* records of the entity handed to _deduplicate_records
MaxTasks == 3           \* run_migration_task coroutines added for the migration
MaxFieldMappings == 2   \* field mappings of the mapping handed to transform_record
MaxTiers == 3           \* tiers in the list handed to tier_mapping
MaxUpTo == 3            \* up_to of a tier is 0..MaxUpTo, null or missing
MaxValidations == 2     \* validate_record calls made on one record
MaxSamples == 2         \* sample records handed to infer_schema_from_data
MaxNameParts == 2       \* parts, between underscores, of a service or entity name

----------------------------------------------------------------------------
(* Names *)

None == <<>>

stripe == <<"stripe">>
salesforce == <<"salesforce">>
chargebee == <<"chargebee">>
customer == <<"customer">>
subscription == <<"subscription">>

\* str.lower() on one word
LowerWord(w) ==
    CASE w = "A@X.COM" -> "a@x.com"
      [] w = "Chargebee" -> "chargebee"
      [] w \in {"Stripe", "STRIPE"} -> "stripe"
      [] OTHER -> w

\* str.lower()
Lower(s) == [i \in DOMAIN s |-> LowerWord(s[i])]

\* f"{service}_{entity}"
Key(service, entity) == service \o entity

\* key.split("_")[0]
KeyService(key) == IF key = <<>> THEN <<>> ELSE <<Head(key)>>

\* "_".join(key.split("_")[1:])
KeyEntity(key) == IF key = <<>> THEN <<>> ELSE Tail(key)

----------------------------------------------------------------------------
(* Insertion-ordered dictionaries: sequences of [k, v] entries *)

DictHas(d, k) == \E i \in DOMAIN d : d[i].k = k

DictIndex(d, k) == CHOOSE i \in DOMAIN d : d[i].k = k

DictGet(d, k, default) == IF DictHas(d, k) THEN d[DictIndex(d, k)].v ELSE default

\* d[k] = v : a present key keeps its position
DictSet(d, k, v) ==
    IF DictHas(d, k)
    THEN [d EXCEPT ![DictIndex(d, k)].v = v]
    ELSE Append(d, [k |-> k, v |-> v])

DictKeys(d) == [i \in DOMAIN d |-> d[i].k]

RECURSIVE Sum(_)
Sum(s) == IF s = <<>> THEN 0 ELSE Head(s) + Sum(Tail(s))

RECURSIVE Concat(_)
Concat(ss) == IF ss = <<>> THEN <<>> ELSE Head(ss) \o Concat(Tail(ss))

----------------------------------------------------------------------------
(* Records *)

\* the data an extractor finds for record number i of a source
EmailOf(i) ==
    CASE i % 3 = 1 -> <<"a@x.com">>
      [] i % 3 = 2 -> None
      [] OTHER -> <<"A@X.COM">>

SourceRecord(service, entity, i) ==
    [id |-> <<ToString(i)>>,
     source_service |-> service,
     source_entity |-> entity,
     data |-> [email |-> EmailOf(i)]]

\* TransformedRecord.is_valid
is_valid(record) == record.validation_errors = 0

TransformedRecord(source, target_service, target_entity, nerrors) ==
    [id |-> source.source_service \o source.id,
     target_service |-> target_service,
     target_entity |-> target_entity,
     data |-> [email |-> source.data.email,
               meta_data |-> (source.source_service[1] :> source.id)],
     source_service |-> source.source_service,
     validation_errors |-> nerrors]

----------------------------------------------------------------------------
(* MigrationStep and MigrationRun *)

\* MigrationRun.add_step: a fresh MigrationStep, already marked started
NewStep(phase, entity, status) ==
    [name |-> phase, entity |-> entity, status |-> status,
     records_processed |-> 0, records_succeeded |-> 0,
     records_failed |-> 0, records_skipped |-> 0,
     errors |-> <<>>, warnings |-> 0, completed_at |-> FALSE]

NewRun ==
    [status |-> "pending", steps |-> <<>>, errors |-> <<>>,
     rollback_data |-> <<>>, started_at |-> FALSE, completed_at |-> FALSE,
     total_records_processed |-> 0, total_records_succeeded |-> 0,
     total_records_failed |-> 0, total_records_skipped |-> 0]

\* the step a phase is working on is the last one added
CurStep(r) == r.steps[Len(r.steps)]

SetCurStep(r, step) == [r EXCEPT !.steps[Len(r.steps)] = step]

\* step.errors.append({"record_id": ..., "error": ...})
ErrorEntry(record_id, error) == [record_id |-> record_id, error |-> error]

\* as StepFailed, but without the finally block
StepFailedOpen(step) ==
    [step EXCEPT !.status = "failed",
                 !.errors = Append(@, ErrorEntry(None, "exception"))]

\* the except / finally blocks every phase wraps around one entity
StepFailed(step) ==
    [step EXCEPT !.status = "failed",
                 !.errors = Append(@, ErrorEntry(None, "exception")),
                 !.completed_at = TRUE]

StepCompleted(step) == [step EXCEPT !.status = "completed", !.completed_at = TRUE]

\* MigrationRun.update_totals
update_totals(r) ==
    [r EXCEPT
       !.total_records_processed =
           Sum([i \in DOMAIN r.steps |-> r.steps[i].records_processed]),
       !.total_records_succeeded =
           Sum([i \in DOMAIN r.steps |-> r.steps[i].records_succeeded]),
       !.total_records_failed =
           Sum([i \in DOMAIN r.steps |-> r.steps[i].records_failed]),
       !.total_records_skipped =
           Sum([i \in DOMAIN r.steps |-> r.steps[i].records_skipped])]

FinalizeStaleTotals(r) == [r EXCEPT !.completed_at = TRUE]

\* the finally block of run_migration (the report is counted by the caller)
Finalize(r) == update_totals([r EXCEPT !.completed_at = TRUE])

\* the except block of run_migration: the status is set first, and the
\* error entry then reads the phase from the status
Except(r) ==
    LET failed == [r EXCEPT !.status = "failed"]
    IN  [failed EXCEPT !.errors = Append(@, [phase |-> failed.status,
                                              error |-> "exception"])]

----------------------------------------------------------------------------
(* Configuration *)

DataSource(service, entity) == [service |-> service, entity |-> entity]

EntityMapping(name, ss, se, ts, te) ==
    [name |-> name, source_service |-> ss, source_entity |-> se,
     target_service |-> ts, target_entity |-> te]

\* MigrationMapping; `present` is false for None
MigrationMapping(entity_mappings, migration_order) ==
    [present |-> TRUE, entity_mappings |-> entity_mappings,
     migration_order |-> migration_order]

NoMapping == [present |-> FALSE, entity_mappings |-> <<>>, migration_order |-> <<>>]

Sources == <<DataSource(stripe, customer), DataSource(stripe, subscription)>>

EntityMappings ==
    <<EntityMapping("customers", stripe, customer, chargebee, customer),
      EntityMapping("subscriptions", stripe, subscription, chargebee, subscription)>>

MigrationOrders == {<<>>, <<subscription, customer>>}

Mappings == {MigrationMapping(EntityMappings, order) : order \in MigrationOrders}

\* MigrationConfig; deduplication is the dict being non-empty (every entity
\* then uses the key field "email", the default of .get(entity, "email"))
Configs ==
    [sources : {Sources},
     mapping_file : {NoMapping},
     continue_on_error : BOOLEAN,
     max_errors : {1, MaxErrorsBound},
     batch_size : {MaxBatchSize - 1, MaxBatchSize},
     deduplication : BOOLEAN,
     dedup_preferred_source : {None}]

Registries == {{}, {<<chargebee, customer>>, <<chargebee, subscription>>}}

NoLoader == [present |-> FALSE, connected |-> FALSE, created_records |-> <<>>]

\* no migration is stored and no background task was added
ApiIdle ==
    /\ migration_storage = [status |-> "draft"]
    /\ tasks = <<>>

\* no TransformEngine call is being observed
EngineIdle ==
    /\ source_records = <<>>
    /\ field_mappings = <<>>
    /\ value = <<>>
    /\ transform_config = <<>>
    /\ returned = <<>>

NoRollback == [count |-> 0, deletes |-> <<>>, deleted |-> <<>>,
               status_before |-> "pending"]

Init ==
    /\ config \in Configs
    /\ mapping \in Mappings \cup {NoMapping}
    /\ registry \in Registries
    /\ run = NewRun
    /\ extracted = <<>>
    /\ transformed = <<>>
    /\ loader = NoLoader
    /\ pc = "idle"
    /\ idx = 0
    /\ pos = 0
    /\ acc = <<>>
    /\ queue = <<>>
    /\ transform_calls = <<>>
    /\ load_calls = <<>>
    /\ reports = 0
    /\ faults = 0
    /\ last_rollback = NoRollback
    /\ ApiIdle
    /\ EngineIdle

----------------------------------------------------------------------------
(* run_migration *)

\* an exception leaves the phase: except and finally blocks of run_migration
Abort(r) ==
    /\ run' = Finalize(Except(r))
    /\ reports' = reports + 1
    /\ pc' = "done"

\* the collaborators' outcomes are drawn within the fault budget of the run
Cost(outs, plain) == Cardinality({i \in DOMAIN outs : outs[i] # plain})

Budget(cost) ==
    /\ faults + cost <= MaxFaults
    /\ faults' = faults + cost

\* run_migration, up to the start of the extraction loop
RunMigration ==
    /\ pc = "idle"
    /\ run' = [NewRun EXCEPT !.started_at = TRUE, !.status = "extracting"]
    /\ pc' = "extracting"
    /\ idx' = 1
    /\ UNCHANGED <<api_vars, engine_vars, config, mapping, registry, extracted, transformed, loader, pos,
                   acc, queue, transform_calls, load_calls, reports, faults,
                   last_rollback>>

----------------------------------------------------------------------------
(* _run_extraction *)

NumExtracted == Sum([i \in DOMAIN extracted |-> Len(extracted[i].v)])

\* what extractor.extract() does: raise, or return an ExtractionResult
ExtractOutcomes(room) ==
    {[raises |-> TRUE, n |-> 0, total_extracted |-> 0, errors |-> <<>>]}
    \cup {[raises |-> FALSE, n |-> n, total_extracted |-> n, errors |-> <<>>] :
             n \in 0..room}

\* one iteration of the loop over config.sources, for these outcomes of extract()
ExtractWith(outs) ==
    /\ pc = "extracting"
    /\ idx <= Len(config.sources)
    /\ \E out \in outs :
         LET source == config.sources[idx]
             step == NewStep("Extract", source.entity, "extracting")
             r == [run EXCEPT !.steps = Append(@, step)]
             records == [i \in 1..out.n |->
                            SourceRecord(source.service, source.entity, i)]
             done == [StepCompleted(step) EXCEPT
                        !.records_processed = out.total_extracted,
                        !.records_succeeded = out.total_extracted - Len(out.errors),
                        !.records_failed = Len(out.errors),
                        !.errors = out.errors]
         IN  /\ Budget(IF out.raises \/ out.errors # <<>> THEN 1 ELSE 0)
             /\ IF out.raises
                THEN
                  /\ UNCHANGED extracted
                  /\ IF config.continue_on_error
                     THEN /\ run' = SetCurStep(r, StepFailed(step))
                          /\ idx' = idx + 1
                          /\ UNCHANGED <<pc, reports>>
                     ELSE /\ Abort(SetCurStep(r, StepFailed(step)))
                          /\ UNCHANGED idx
                ELSE
                  /\ extracted' =
                        DictSet(extracted, Key(source.service, source.entity), records)
                  /\ run' = SetCurStep(r, done)
                  /\ idx' = idx + 1
                  /\ UNCHANGED <<pc, reports>>
    /\ UNCHANGED <<api_vars, engine_vars, config, mapping, registry, transformed, loader, pos, acc, queue,
                   transform_calls, load_calls, last_rollback>>

\* the extractor raises, or returns the records it extracted
ExtractSource == ExtractWith(ExtractOutcomes(MaxRecords - NumExtracted))

----------------------------------------------------------------------------
(* _run_transformation *)

ResolveMappingInvented ==
    IF mapping.present THEN mapping
    ELSE IF config.mapping_file.present THEN config.mapping_file
    ELSE MigrationMapping(EntityMappings, <<>>)

\* the mapping the phase works with: the one given, else the one loaded
\* from config.mapping_file, else None (_auto_generate_mapping raises)
ResolveMapping ==
    IF mapping.present THEN mapping
    ELSE IF config.mapping_file.present THEN config.mapping_file
    ELSE NoMapping

\* run_migration between the phases, and the head of _run_transformation
StartTransformation ==
    /\ pc = "extracting"
    /\ idx > Len(config.sources)
    /\ LET r == [run EXCEPT !.status = "transforming"]
       IN  IF ResolveMapping.present
           THEN /\ mapping' = ResolveMapping
                /\ run' = r
                /\ pc' = "transforming"
                /\ idx' = 1
                /\ UNCHANGED reports
           ELSE /\ Abort(r)
                /\ UNCHANGED <<mapping, idx>>
    /\ pos' = 0
    /\ UNCHANGED <<api_vars, engine_vars, faults, config, registry, extracted, transformed, loader, acc, queue,
                   transform_calls, load_calls, last_rollback>>

\* self._extracted_data.get(source_key, [])
SourceRecordsOf(entity_mapping) ==
    DictGet(extracted,
            Key(entity_mapping.source_service, entity_mapping.source_entity), <<>>)

\* head of the loop over entity mappings: add the step, find the source data
TransformBegin ==
    /\ pc = "transforming"
    /\ idx <= Len(mapping.entity_mappings)
    /\ pos = 0
    /\ LET em == mapping.entity_mappings[idx]
           step == NewStep("Transform", em.target_entity, "transforming")
           r == [run EXCEPT !.steps = Append(@, step)]
       IN  IF SourceRecordsOf(em) = <<>>
           THEN /\ run' = SetCurStep(r, [StepCompleted(step) EXCEPT !.warnings = @ + 1])
                /\ idx' = idx + 1
                /\ UNCHANGED pos
           ELSE /\ run' = r
                /\ pos' = 1
                /\ UNCHANGED idx
    /\ acc' = <<>>
    /\ UNCHANGED <<api_vars, engine_vars, faults, config, mapping, registry, extracted, transformed, loader, pc,
                   queue, transform_calls, load_calls, reports, last_rollback>>

\* what transform_record does with one source record: return a record,
\* return a record carrying a ValidationError of type transform, or raise
TransformOutcomes == {"ok", "field_error", "raise"}

\* as MaxErrorsReached, but the first error already exhausts the budget
MaxErrorsReachedAtOnce(step) == Len(step.errors) >= 1

\* the error budget test made after a record (or batch) has been accounted
MaxErrorsReached(step) == Len(step.errors) >= config.max_errors

\* one iteration of the loop over source_records
TransformRecord ==
    /\ pc = "transforming"
    /\ idx <= Len(mapping.entity_mappings)
    /\ pos >= 1
    /\ pos <= Len(SourceRecordsOf(mapping.entity_mappings[idx]))
    /\ \E out \in TransformOutcomes :
         LET em == mapping.entity_mappings[idx]
             record == SourceRecordsOf(em)[pos]
             step == CurStep(run)
             ok == [step EXCEPT !.records_processed = @ + 1,
                                !.records_succeeded = @ + 1]
             bad == [step EXCEPT !.records_processed = @ + 1,
                                 !.records_failed = @ + 1,
                                 !.errors = Append(@, ErrorEntry(record.id, "exception"))]
         IN  /\ Budget(IF out = "ok" THEN 0 ELSE 1)
             /\ transform_calls' = Append(transform_calls,
                                          [mapping |-> em.name, record |-> record.id])
             /\ IF out # "raise"
                THEN /\ acc' = Append(acc,
                                TransformedRecord(record, em.target_service,
                                    em.target_entity,
                                    IF out = "field_error" THEN 1 ELSE 0))
                     /\ run' = SetCurStep(run, ok)
                     /\ pos' = pos + 1
                     /\ UNCHANGED <<idx, pc, reports>>
                ELSE /\ UNCHANGED acc
                     /\ IF ~MaxErrorsReached(bad)
                        THEN /\ run' = SetCurStep(run, bad)
                             /\ pos' = pos + 1
                             /\ UNCHANGED <<idx, pc, reports>>
                        ELSE IF config.continue_on_error
                        THEN /\ run' = SetCurStep(run, StepFailed(bad))
                             /\ idx' = idx + 1
                             /\ pos' = 0
                             /\ UNCHANGED <<pc, reports>>
                        ELSE /\ Abort(SetCurStep(run, StepFailed(bad)))
                             /\ UNCHANGED <<idx, pos>>
    /\ UNCHANGED <<api_vars, engine_vars, config, mapping, registry, extracted, transformed, loader, queue,
                   load_calls, last_rollback>>

\* after the last source record: store the batch under the target key
TransformEnd ==
    /\ pc = "transforming"
    /\ idx <= Len(mapping.entity_mappings)
    /\ pos > Len(SourceRecordsOf(mapping.entity_mappings[idx]))
    /\ LET em == mapping.entity_mappings[idx]
       IN  /\ transformed' =
                 DictSet(transformed, Key(em.target_service, em.target_entity), acc)
           /\ run' = SetCurStep(run, StepCompleted(CurStep(run)))
    /\ idx' = idx + 1
    /\ pos' = 0
    /\ UNCHANGED <<api_vars, engine_vars, faults, config, mapping, registry, extracted, loader, pc, acc, queue,
                   transform_calls, load_calls, reports, last_rollback>>

----------------------------------------------------------------------------
(* _run_validation *)

StartValidationKeepsStatus ==
    /\ pc = "transforming"
    /\ idx > Len(mapping.entity_mappings)
    /\ pc' = "validating"
    /\ idx' = 1
    /\ UNCHANGED <<api_vars, engine_vars, faults, config, mapping, registry, run, extracted, transformed,
                   loader, pos, acc, queue, transform_calls, load_calls, reports,
                   last_rollback>>

\* run_migration between the phases
StartValidation ==
    /\ pc = "transforming"
    /\ idx > Len(mapping.entity_mappings)
    /\ run' = [run EXCEPT !.status = "validating"]
    /\ pc' = "validating"
    /\ idx' = 1
    /\ UNCHANGED <<api_vars, engine_vars, faults, config, mapping, registry, extracted, transformed, loader, pos,
                   acc, queue, transform_calls, load_calls, reports, last_rollback>>

\* SchemaRegistry.get_entity_schema: the service name is lower-cased
get_entity_schema(service, entity) == <<Lower(service), entity>> \in registry

\* what validate_record does with one record: return no error of severity
\* error, return at least one, or raise
ValidateOutcomes == {"pass", "errors", "raise"}

\* the loop over the records of one key; st carries the records (whose
\* validation_errors lists are extended in place), valid_records and the step
RECURSIVE ValidateLoop(_, _, _)
ValidateLoop(outs, k, st) ==
    IF k > Len(st.records) THEN st
    ELSE LET counted == [st.step EXCEPT !.records_processed = @ + 1]
         IN  IF outs[k] = "raise"
             THEN [st EXCEPT !.step = counted, !.raised = TRUE]
             ELSE LET record == [st.records[k] EXCEPT !.validation_errors =
                                    @ + (IF outs[k] = "errors" THEN 1 ELSE 0)]
                      kept == [st EXCEPT !.records[k] = record]
                  IN  IF is_valid(record)
                      THEN ValidateLoop(outs, k + 1,
                               [kept EXCEPT
                                  !.valid_records = Append(@, record),
                                  !.step = [counted EXCEPT !.records_succeeded = @ + 1]])
                      ELSE ValidateLoop(outs, k + 1,
                               [kept EXCEPT
                                  !.step = [counted EXCEPT
                                     !.records_failed = @ + 1,
                                     !.errors = Append(@,
                                         ErrorEntry(record.id, "validation"))]])

ValidateEntityReraises ==
    /\ pc = "validating"
    /\ idx <= Len(transformed)
    /\ LET key == transformed[idx].k
           records == transformed[idx].v
           schema == get_entity_schema(KeyService(key), KeyEntity(key))
           step == NewStep("Validate", KeyEntity(key), "validating")
           r == [run EXCEPT !.steps = Append(@, step)]
       IN  \E outs \in [DOMAIN records ->
                           IF schema THEN ValidateOutcomes ELSE {"pass"}] :
             LET res == ValidateLoop(outs, 1,
                            [records |-> records, valid_records |-> <<>>,
                             step |-> step, raised |-> FALSE])
             IN  /\ Budget(Cost(outs, "pass"))
                 /\ IF res.raised
                    THEN /\ transformed' = [transformed EXCEPT ![idx].v = res.records]
                         /\ IF config.continue_on_error
                            THEN /\ run' = SetCurStep(r, StepFailed(res.step))
                                 /\ idx' = idx + 1
                                 /\ UNCHANGED <<pc, reports>>
                            ELSE /\ Abort(SetCurStep(r, StepFailed(res.step)))
                                 /\ UNCHANGED idx
                    ELSE /\ transformed' =
                               [transformed EXCEPT ![idx].v = res.valid_records]
                         /\ run' = SetCurStep(r, StepCompleted(res.step))
                         /\ idx' = idx + 1
                         /\ UNCHANGED <<pc, reports>>
    /\ UNCHANGED <<api_vars, engine_vars, config, mapping, registry, extracted, loader, pos, acc, queue,
                   transform_calls, load_calls, last_rollback>>

\* one iteration of the loop over _transformed_data
ValidateEntity ==
    /\ pc = "validating"
    /\ idx <= Len(transformed)
    /\ LET key == transformed[idx].k
           records == transformed[idx].v
           schema == get_entity_schema(KeyService(key), KeyEntity(key))
           step == NewStep("Validate", KeyEntity(key), "validating")
           r == [run EXCEPT !.steps = Append(@, step)]
       IN  \E outs \in [DOMAIN records ->
                           IF schema THEN ValidateOutcomes ELSE {"pass"}] :
             LET res == ValidateLoop(outs, 1,
                            [records |-> records, valid_records |-> <<>>,
                             step |-> step, raised |-> FALSE])
             IN  /\ Budget(Cost(outs, "pass"))
                 /\ IF res.raised
                    THEN /\ transformed' = [transformed EXCEPT ![idx].v = res.records]
                         /\ run' = SetCurStep(r, StepFailed(res.step))
                    ELSE /\ transformed' =
                               [transformed EXCEPT ![idx].v = res.valid_records]
                         /\ run' = SetCurStep(r, StepCompleted(res.step))
    /\ idx' = idx + 1
    /\ UNCHANGED <<api_vars, engine_vars, config, mapping, registry, extracted, loader, pc, pos, acc, queue,
                   transform_calls, load_calls, reports, last_rollback>>

----------------------------------------------------------------------------
(* BaseLoader *)

\* what load_record does with one record: succeed with a target id, succeed
\* without one, return a failure, or raise
LoadOutcomes == {"created", "no_id", "failed", "raise"}

\* the id the target system assigns
TargetId(record) == <<"t">> \o record.id

LoadResult(entity) ==
    [entity |-> entity, total_attempted |-> 0, total_succeeded |-> 0,
     total_failed |-> 0, errors |-> <<>>, created_ids |-> <<>>,
     requested |-> <<>>]

\* the loop of BaseLoader.load_batch; `requested` lists the load_record calls
RECURSIVE load_batch_loop(_, _, _, _)
load_batch_loop(records, outs, k, result) ==
    IF k > Len(records) THEN result
    ELSE LET record == records[k]
             called == [result EXCEPT !.requested = Append(@, record.id),
                                      !.total_attempted = @ + 1]
         IN  load_batch_loop(records, outs, k + 1,
               CASE outs[k] = "created" ->
                      [called EXCEPT !.total_succeeded = @ + 1,
                                     !.created_ids = Append(@, TargetId(record))]
                 [] outs[k] = "no_id" ->
                      [called EXCEPT !.total_succeeded = @ + 1]
                 [] outs[k] = "failed" ->
                      [called EXCEPT !.total_failed = @ + 1,
                                     !.errors = Append(@, ErrorEntry(record.id, "failed"))]
                 [] OTHER ->
                      [called EXCEPT !.total_failed = @ + 1,
                                     !.errors = Append(@, ErrorEntry(record.id, "exception"))])

load_batch_uncaught(records, entity, outs) ==
    LET raising == {k \in DOMAIN records : outs[k] = "raise"}
        last == IF raising = {} THEN Len(records)
                ELSE (CHOOSE k \in raising : \A m \in raising : k <= m) - 1
    IN  load_batch_loop(SubSeq(records, 1, last), outs, 1, LoadResult(entity))

\* BaseLoader.load_batch: the LoadResult it returns
load_batch(records, entity, outs) == load_batch_loop(records, outs, 1, LoadResult(entity))

\* BaseLoader.load_batch: what it leaves in _created_records
TrackCreated(created_records, entity, result) ==
    DictSet(created_records, entity,
            DictGet(created_records, entity, <<>>) \o result.created_ids)

----------------------------------------------------------------------------
(* _run_loading *)

\* the loop that organizes _transformed_data by target entity
RECURSIVE GroupByEntity(_, _, _)
GroupByEntity(data, k, records_by_entity) ==
    IF k > Len(data) THEN records_by_entity
    ELSE LET entity == KeyEntity(data[k].k)
         IN  GroupByEntity(data, k + 1,
                 DictSet(records_by_entity, entity,
                         DictGet(records_by_entity, entity, <<>>) \o data[k].v))

DedupStepKeepFirst(seen, record, preferred_source) ==
    LET key_value == record.data.email
    IN  IF key_value = None
        THEN IF DictHas(seen, record.id) THEN seen ELSE DictSet(seen, record.id, record)
        ELSE IF ~DictHas(seen, Lower(key_value))
        THEN DictSet(seen, Lower(key_value), record)
        ELSE seen

\* _deduplicate_records: one iteration of the loop over an entity's records;
\* `seen` is keyed by the lower-cased key value, or by the record id when the
\* key value is missing
DedupStep(seen, record, preferred_source) ==
    LET key_value == record.data.email
    IN  IF key_value = None
        THEN IF DictHas(seen, record.id) THEN seen ELSE DictSet(seen, record.id, record)
        ELSE IF ~DictHas(seen, Lower(key_value))
        THEN DictSet(seen, Lower(key_value), record)
        ELSE LET existing == DictGet(seen, Lower(key_value), record)
             IN  IF /\ record.source_service = preferred_source
                    /\ existing.source_service # preferred_source
                 THEN DictSet(seen, Lower(key_value),
                              [record EXCEPT !.data.meta_data =
                                  existing.data.meta_data @@ record.data.meta_data])
                 ELSE seen

RECURSIVE DedupLoop(_, _, _, _)
DedupLoop(records, k, seen, preferred_source) ==
    IF k > Len(records) THEN seen
    ELSE DedupLoop(records, k + 1, DedupStep(seen, records[k], preferred_source),
                   preferred_source)

deduplicate_records_reversed(records_by_entity, preferred_source) ==
    [i \in DOMAIN records_by_entity |->
        LET seen == DedupLoop(records_by_entity[i].v, 1, <<>>, preferred_source)
        IN  [k |-> records_by_entity[i].k,
             v |-> [j \in DOMAIN seen |-> seen[Len(seen) + 1 - j].v]]]

\* _deduplicate_records
deduplicate_records(records_by_entity, preferred_source) ==
    [i \in DOMAIN records_by_entity |->
        LET seen == DedupLoop(records_by_entity[i].v, 1, <<>>, preferred_source)
        IN  [k |-> records_by_entity[i].k,
             v |-> [j \in DOMAIN seen |-> seen[j].v]]]

\* records[lo:hi]
Slice(records, lo, hi) ==
    SubSeq(records, lo + 1, IF hi < Len(records) THEN hi ELSE Len(records))

\* _batch_iterator: for i in range(start, len(records), batch_size)
RECURSIVE batch_range(_, _, _)
batch_range(records, i, batch_size) ==
    IF i >= Len(records) THEN <<>>
    ELSE <<Slice(records, i, i + batch_size)>>
         \o batch_range(records, i + batch_size, batch_size)

batch_iterator_from_one(records, batch_size) == batch_range(records, 1, batch_size)

\* _batch_iterator
batch_iterator(records, batch_size) == batch_range(records, 0, batch_size)

TrackRollbackAssign(rollback_data, entity, result) ==
    DictSet(rollback_data, entity, result.created_ids)

\* _run_loading, "Track for rollback": run.rollback_data[entity].extend(...)
TrackRollback(rollback_data, entity, result) ==
    DictSet(rollback_data, entity,
            DictGet(rollback_data, entity, <<>>) \o result.created_ids)

ConnectionRefusedNever(connected) == FALSE

\* _run_loading: `if not self.loader.validate_connection(): raise`
ConnectionRefused(connected) == ~connected

\* run_migration between the phases, and _run_loading up to its entity loop
StartLoading ==
    /\ pc = "validating"
    /\ idx > Len(transformed)
    /\ \E connected \in BOOLEAN :
         LET r == [run EXCEPT !.status = "loading"]
             records_by_entity == GroupByEntity(transformed, 1, <<>>)
         IN  /\ Budget(IF connected THEN 0 ELSE 1)
             /\ loader' = [present |-> TRUE, connected |-> connected,
                           created_records |-> <<>>]
             /\ IF ~ConnectionRefused(connected)
                THEN
                  /\ run' = r
                  /\ queue' = IF config.deduplication
                              THEN deduplicate_records(records_by_entity,
                                                       config.dedup_preferred_source)
                              ELSE records_by_entity
                  /\ pc' = "loading"
                  /\ idx' = 1
                  /\ UNCHANGED reports
                ELSE
                  /\ Abort(r)
                  /\ UNCHANGED <<queue, idx>>
    /\ pos' = 0
    /\ UNCHANGED <<api_vars, engine_vars, config, mapping, registry, extracted, transformed, acc,
                   transform_calls, load_calls, last_rollback>>

\* head of the loop over records_by_entity: add the step
LoadBegin ==
    /\ pc = "loading"
    /\ idx <= Len(queue)
    /\ pos = 0
    /\ run' = [run EXCEPT !.steps = Append(@, NewStep("Load", queue[idx].k, "loading"))]
    /\ pos' = 1
    /\ UNCHANGED <<api_vars, engine_vars, faults, config, mapping, registry, extracted, transformed, loader, pc, idx,
                   acc, queue, transform_calls, load_calls, reports, last_rollback>>

\* the batches of the entity being loaded
Batches == batch_iterator(queue[idx].v, config.batch_size)

\* one iteration of the loop over the batches of an entity
LoadBatch ==
    /\ pc = "loading"
    /\ idx <= Len(queue)
    /\ pos >= 1
    /\ pos <= Len(Batches)
    /\ \E outs \in [DOMAIN Batches[pos] -> LoadOutcomes] :
         LET entity == queue[idx].k
             result == load_batch(Batches[pos], entity, outs)
             step == [CurStep(run) EXCEPT
                        !.records_processed = @ + result.total_attempted,
                        !.records_succeeded = @ + result.total_succeeded,
                        !.records_failed = @ + result.total_failed,
                        !.errors = @ \o result.errors]
             r == [run EXCEPT !.rollback_data = TrackRollback(@, entity, result)]
         IN  /\ Budget(Cost(outs, "created"))
             /\ load_calls' = Append(load_calls,
                                     [entity |-> entity, records |-> Batches[pos],
                                      outs |-> outs, result |-> result])
             /\ loader' = [loader EXCEPT !.created_records =
                              TrackCreated(@, entity, result)]
             /\ IF ~MaxErrorsReached(step)
                THEN /\ run' = SetCurStep(r, step)
                     /\ pos' = pos + 1
                     /\ UNCHANGED <<idx, pc, reports>>
                ELSE IF config.continue_on_error
                THEN /\ run' = SetCurStep(r, StepFailed(step))
                     /\ idx' = idx + 1
                     /\ pos' = 0
                     /\ UNCHANGED <<pc, reports>>
                ELSE /\ Abort(SetCurStep(r, StepFailed(step)))
                     /\ UNCHANGED <<idx, pos>>
    /\ UNCHANGED <<api_vars, engine_vars, config, mapping, registry, extracted, transformed, acc, queue,
                   transform_calls, last_rollback>>

\* after the last batch of an entity
LoadEnd ==
    /\ pc = "loading"
    /\ idx <= Len(queue)
    /\ pos > Len(Batches)
    /\ run' = SetCurStep(run, StepCompleted(CurStep(run)))
    /\ idx' = idx + 1
    /\ pos' = 0
    /\ UNCHANGED <<api_vars, engine_vars, faults, config, mapping, registry, extracted, transformed, loader, pc, acc,
                   queue, transform_calls, load_calls, reports, last_rollback>>

\* _run_loading has returned: the tail of run_migration
Complete ==
    /\ pc = "loading"
    /\ idx > Len(queue)
    /\ run' = Finalize([run EXCEPT !.status = "completed"])
    /\ reports' = reports + 1
    /\ pc' = "done"
    /\ UNCHANGED <<api_vars, engine_vars, faults, config, mapping, registry, extracted, transformed, loader, idx,
                   pos, acc, queue, transform_calls, load_calls, last_rollback>>

----------------------------------------------------------------------------
(* rollback *)

\* what delete_record does with one id: return true, return false, or raise
DeleteOutcomes == {"true", "false", "raise"}

\* the (entity, id) positions of BaseLoader._created_records
CreatedPositions(created_records) ==
    {<<i, j>> : i \in DOMAIN created_records, j \in 1..MaxRecords} \cap
    {p \in (DOMAIN created_records) \X (1..MaxRecords) :
        p[2] <= Len(created_records[p[1]].v)}

\* BaseLoader.rollback, the loop over the ids of one entity: the number of
\* deletes that returned true
RECURSIVE CountDeleted(_, _, _)
CountDeleted(outs, i, j) ==
    IF j = 0 THEN 0
    ELSE CountDeleted(outs, i, j - 1) + (IF outs[<<i, j>>] = "true" THEN 1 ELSE 0)

\* BaseLoader.rollback: the delete_record calls it makes, in order
DeleteCalls(created_records, outs) ==
    Concat([i \in DOMAIN created_records |->
               [j \in DOMAIN created_records[i].v |->
                   [entity |-> created_records[i].k,
                    id |-> created_records[i].v[j],
                    result |-> outs[<<i, j>>]]]])

rollback_counts_attempted(created_records, outs) ==
    [i \in DOMAIN created_records |->
        [k |-> created_records[i].k, v |-> Len(created_records[i].v)]]

\* BaseLoader.rollback: the deleted_counts it returns
rollback_counts(created_records, outs) ==
    [i \in DOMAIN created_records |->
        [k |-> created_records[i].k,
         v |-> CountDeleted(outs, i, Len(created_records[i].v))]]

\* MigrationOrchestrator.rollback
Rollback ==
    /\ pc \in {"idle", "done"}
    /\ last_rollback.count < MaxRollbacks
    /\ IF ~loader.present
       THEN /\ last_rollback' = [count |-> last_rollback.count + 1,
                                 deletes |-> <<>>, deleted |-> <<>>,
                                 status_before |-> run.status]
            /\ UNCHANGED <<run, faults>>
       ELSE \E outs \in [CreatedPositions(loader.created_records) -> DeleteOutcomes] :
              /\ Budget(Cost(outs, "true"))
              /\ last_rollback' =
                    [count |-> last_rollback.count + 1,
                     deletes |-> DeleteCalls(loader.created_records, outs),
                     deleted |-> rollback_counts(loader.created_records, outs),
                     status_before |-> run.status]
              /\ run' = [run EXCEPT !.status = "rolled_back"]
    /\ UNCHANGED <<api_vars, engine_vars, config, mapping, registry, extracted, transformed, loader, pc, idx,
                   pos, acc, queue, transform_calls, load_calls, reports>>

----------------------------------------------------------------------------

Next ==
    \/ RunMigration
    \/ ExtractSource
    \/ StartTransformation
    \/ TransformBegin
    \/ TransformRecord
    \/ TransformEnd
    \/ StartValidation
    \/ ValidateEntity
    \/ StartLoading
    \/ LoadBegin
    \/ LoadBatch
    \/ LoadEnd
    \/ Complete
    \/ Rollback

Spec == Init /\ [][Next]_vars

----------------------------------------------------------------------------
(* Properties *)

RunPhases == {"extracting", "transforming", "validating", "loading"}

\* the status changes run_migration may make
PhaseSteps ==
    {<<"pending", "extracting">>, <<"extracting", "transforming">>,
     <<"transforming", "validating">>, <<"validating", "loading">>,
     <<"loading", "completed">>}
    \cup {<<phase, "failed">> : phase \in RunPhases}

\* C1: while run_migration executes, the run status only moves along
\* pending -> extracting -> transforming -> validating -> loading -> completed,
\* one phase at a time, or from a phase to failed; it becomes completed only
\* when the loading loop has gone through every entity without raising.
C1_PhaseOrder ==
    [][(pc # "done" /\ run'.status # run.status)
          => /\ <<run.status, run'.status>> \in PhaseSteps
             /\ run'.status = "completed" => (pc = "loading" /\ idx > Len(queue))]_vars

C1_Witness ==
    /\ pc = "done"
    /\ run.status = "completed"
    /\ load_calls # <<>>

\* the records handed to Loader.load_batch so far
LoadedRecords == Concat([i \in DOMAIN load_calls |-> load_calls[i].records])

\* C2: every record passed to Loader.load_batch is valid, and once the
\* validation phase is over every record left in the working set is valid.
C2_OnlyValidRecordsLoaded ==
    /\ \A i \in DOMAIN LoadedRecords : is_valid(LoadedRecords[i])
    /\ pc = "loading" =>
          \A i \in DOMAIN transformed :
             \A j \in DOMAIN transformed[i].v : is_valid(transformed[i].v[j])

\* position of an entity in mapping.migration_order (0 when it is not listed)
OrderIndex(entity) ==
    IF \E i \in DOMAIN mapping.migration_order : mapping.migration_order[i] = entity
    THEN CHOOSE i \in DOMAIN mapping.migration_order :
            mapping.migration_order[i] = entity
    ELSE 0

\* C3: when the mapping supplies a migration_order, the load_batch calls
\* are made entity by entity in that order.
C3_LoadFollowsMigrationOrder ==
    (mapping.present /\ mapping.migration_order # <<>>) =>
        \A i, j \in DOMAIN load_calls :
            i < j => OrderIndex(load_calls[i].entity) <= OrderIndex(load_calls[j].entity)

StepSum(r, field) ==
    Sum([i \in DOMAIN r.steps |->
            CASE field = "processed" -> r.steps[i].records_processed
              [] field = "succeeded" -> r.steps[i].records_succeeded
              [] field = "failed" -> r.steps[i].records_failed
              [] OTHER -> r.steps[i].records_skipped])

\* C4: when run_migration returns, normally or after a phase raised, the
\* status is completed or failed, completed_at is set, each run total is the
\* sum of that counter over the steps, the report has been saved exactly
\* once, and run.errors holds exactly one entry if a phase raised (and none
\* otherwise).
C4_RunFinalized ==
    [][(pc # "done" /\ pc' = "done")
          => /\ run'.status \in {"completed", "failed"}
             /\ run'.completed_at
             /\ run'.total_records_processed = StepSum(run', "processed")
             /\ run'.total_records_succeeded = StepSum(run', "succeeded")
             /\ run'.total_records_failed = StepSum(run', "failed")
             /\ run'.total_records_skipped = StepSum(run', "skipped")
             /\ reports = 0 /\ reports' = 1
             /\ Len(run'.errors) = (IF run'.status = "failed" THEN 1 ELSE 0)]_vars

C4_Witness ==
    /\ pc = "done"
    /\ run.status = "failed"
    /\ run.total_records_processed > 0
    /\ run.total_records_failed > 0
    /\ Len(run.errors) = 1
    /\ reports = 1

\* the entries of the steps of a run that report one record
RecordErrors(r) ==
    Sum([i \in DOMAIN r.steps |->
            Cardinality({j \in DOMAIN r.steps[i].errors :
                            r.steps[i].errors[j].record_id # None})])

\* the steps of the transformation and loading phases that have failed
FailedWorkSteps(r) ==
    {i \in DOMAIN r.steps : /\ r.steps[i].name \in {"Transform", "Load"}
                            /\ r.steps[i].status = "failed"}

\* C5: in the transformation and loading phases, once the record errors of
\* the run exceed config.max_errors nothing more of the phase is processed
\* (no transform_record call, no load_batch call, no further entity step),
\* and no step of these phases is aborted while the record errors do not
\* exceed config.max_errors.
C5_ErrorBudget ==
    [][/\ (run.status \in {"transforming", "loading"}
              /\ RecordErrors(run) > config.max_errors)
          => /\ transform_calls' = transform_calls
             /\ load_calls' = load_calls
             /\ Len(run'.steps) = Len(run.steps)
       /\ FailedWorkSteps(run') # FailedWorkSteps(run)
          => RecordErrors(run') > config.max_errors]_vars

\* ceil(n / b)
CeilDiv(n, b) == (n + b - 1) \div b

Min(a, b) == IF a < b THEN a ELSE b

\* the batches submitted so far for an entity, in order
BatchesOf(entity) ==
    LET own == SelectSeq(load_calls, LAMBDA c : c.entity = entity)
    IN  [i \in DOMAIN own |-> own[i].records]

LoadSteps == {i \in DOMAIN run.steps : run.steps[i].name = "Load"}

\* the first k batches of an entity cut its record list as _batch_iterator
\* promises: contiguous slices of batch_size records (the last one of
\* ceil(n / b) is what is left), in the order of the list
SlicesUpTo(entity, k) ==
    LET records == DictGet(queue, entity, <<>>)
        b == config.batch_size
        bs == BatchesOf(entity)
    IN  /\ Len(bs) = k
        /\ k <= CeilDiv(Len(records), b)
        /\ Concat(bs) = SubSeq(records, 1, Min(k * b, Len(records)))
        /\ \A i \in DOMAIN bs :
              /\ Len(bs[i]) <= b
              /\ i < CeilDiv(Len(records), b) => Len(bs[i]) = b

Ids(records) == [j \in DOMAIN records |-> records[j].id]

\* the records of a load_batch call whose load_record failed or raised
Rejected(call) ==
    SelectSeq([j \in DOMAIN call.records |->
                  [id |-> call.records[j].id, out |-> call.outs[j]]],
              LAMBDA x : x.out \in {"failed", "raise"})

\* C7: load_batch calls load_record once for every record of the batch, in
\* order, whatever the earlier records did; total_attempted is the batch
\* size and equals total_succeeded + total_failed; every failed or raising
\* record has exactly one entry in errors.
C7_LoadBatchAttemptsAll ==
    \A i \in DOMAIN load_calls :
        LET call == load_calls[i]
            result == call.result
        IN  /\ result.requested = Ids(call.records)
            /\ result.total_attempted = Len(call.records)
            /\ result.total_attempted = result.total_succeeded + result.total_failed
            /\ Ids(Rejected(call)) = [j \in DOMAIN result.errors |->
                                         result.errors[j].record_id]

C7_Witness ==
    \E i \in DOMAIN load_calls :
        /\ Len(load_calls[i].records) = 2
        /\ load_calls[i].outs[1] = "raise"
        /\ load_calls[i].outs[2] = "failed"

Entities == {customer, subscription}

\* the created ids returned by the load_batch calls of an entity, in order
CreatedBy(entity) ==
    LET own == SelectSeq(load_calls, LAMBDA c : c.entity = entity)
    IN  Concat([i \in DOMAIN own |-> own[i].result.created_ids])

\* C8: run.rollback_data[entity] is the in-order concatenation of the
\* created_ids of every load_batch call made for the entity, the batch that
\* exhausted the error budget included.
C8_RollbackDataComplete ==
    /\ \A e \in Entities : DictGet(run.rollback_data, e, <<>>) = CreatedBy(e)
    /\ \A i \in DOMAIN run.rollback_data : run.rollback_data[i].k \in Entities

C8_Witness ==
    /\ pc = "done"
    /\ run.status = "failed"
    /\ CurStep(run).name = "Load"
    /\ CurStep(run).status = "failed"
    /\ load_calls # <<>>
    /\ LET last == load_calls[Len(load_calls)]
       IN  /\ last.result.errors # <<>>
           /\ last.result.created_ids # <<>>
           /\ DictGet(run.rollback_data, last.entity, <<>>) # <<>>

\* the delete_record calls of the latest rollback() for an entity, in order
DeletesOf(entity) == SelectSeq(last_rollback.deletes, LAMBDA d : d.entity = entity)

\* what rollback() did, against the run's rollback list
SweptAll ==
        /\ \A i \in DOMAIN run.rollback_data :
              LET e == run.rollback_data[i].k
                  ds == DeletesOf(e)
              IN  /\ [j \in DOMAIN ds |-> ds[j].id] = run.rollback_data[i].v
                  /\ DictHas(last_rollback.deleted, e)
                  /\ DictGet(last_rollback.deleted, e, 0) =
                        Cardinality({j \in DOMAIN ds : ds[j].result = "true"})
        /\ \A i \in DOMAIN last_rollback.deleted :
              DictHas(run.rollback_data, last_rollback.deleted[i].k)

\* C9: rollback() calls delete_record once for every id of the run's
\* per-entity rollback list, in order, going on after a delete that returned
\* false or raised, and returns per entity the number of deletes that
\* returned true.
C9_RollbackSweepsAll ==
    [][last_rollback'.count > last_rollback.count => SweptAll']_vars

C9_Witness ==
    /\ last_rollback.count > 0
    /\ Len(last_rollback.deletes) = 2
    /\ last_rollback.deletes[1].result = "raise"
    /\ last_rollback.deletes[2].result = "true"
    /\ last_rollback.deletes[1].entity = last_rollback.deletes[2].entity

\* C10: the status becomes rolled_back only by a rollback() call made while
\* it is completed; a rollback() call made in any other status changes
\* neither the status nor any record; rolled_back is never left.
C10_RollbackOnlyFromCompleted ==
    [][/\ (run'.status = "rolled_back" /\ run.status # "rolled_back")
          => (run.status = "completed" /\ last_rollback'.count > last_rollback.count)
       /\ (last_rollback'.count > last_rollback.count
              /\ run.status \notin {"completed", "rolled_back"})
          => (run'.status = run.status /\ last_rollback'.deletes = <<>>)
       /\ run.status = "rolled_back" => run'.status = "rolled_back"]_vars

----------------------------------------------------------------------------
(* Fatal configuration and connectivity errors *)

\* the steps of the phases that come after extraction
LaterSteps == {i \in DOMAIN run.steps : run.steps[i].name \in {"Transform", "Validate", "Load"}}

\* the run has got no further than a failed transformation phase
NothingTransformed ==
    /\ ~mapping.present
    /\ transform_calls = <<>>
    /\ load_calls = <<>>
    /\ LaterSteps = {}
    /\ run.status \notin {"validating", "loading", "completed"}
    /\ pc = "done" => (run.status = "failed" /\ Len(run.errors) = 1)

\* C11: with neither a mapping nor a mapping_file the transformation phase
\* raises before any record is transformed: no mapping is invented, no
\* transform_record and no load_batch call is made, no transformation,
\* validation or loading step exists, the run never reaches validating,
\* loading or completed, and it ends failed.
C11_NoMappingIsFatal ==
    [][(~mapping.present /\ ~config.mapping_file.present) => NothingTransformed']_vars

C11_Witness ==
    /\ pc = "done"
    /\ ~mapping.present
    /\ ~config.mapping_file.present
    /\ run.status = "failed"
    /\ NumExtracted > 0

\* C12: a batch whose target EntitySchema the registry cannot resolve is a
\* fatal configuration error: none of its records is passed to load_batch,
\* and the run does not go on to loading or completed.
C12_UnresolvedSchemaIsFatal ==
    /\ \A i \in DOMAIN load_calls : \A j \in DOMAIN load_calls[i].records :
          get_entity_schema(load_calls[i].records[j].target_service,
                            load_calls[i].records[j].target_entity)
    /\ run.status \in {"loading", "completed"} =>
          \A i \in DOMAIN transformed :
              get_entity_schema(KeyService(transformed[i].k), KeyEntity(transformed[i].k))

\* C13: when validate_connection returns false the loading phase aborts
\* before any record is sent: no load_batch call, no loading step, empty
\* rollback_data, and the run ends failed (and stays failed until a
\* rollback() call).
C13_ConnectionFailureIsFatal ==
    (loader.present /\ ~loader.connected) =>
        /\ load_calls = <<>>
        /\ LoadSteps = {}
        /\ run.rollback_data = <<>>
        /\ loader.created_records = <<>>
        /\ pc = "done"
        /\ Len(run.errors) = 1
        /\ \/ run.status = "failed"
           \/ (run.status = "rolled_back" /\ last_rollback.count > 0)

C13_Witness ==
    /\ loader.present
    /\ ~loader.connected
    /\ run.status = "failed"
    /\ \E i \in DOMAIN transformed : transformed[i].v # <<>>

\* C14: the entry appended to run.errors when an exception escapes a phase
\* names the phase that was executing (extracting, transforming, validating
\* or loading).
C14_ErrorEntryNamesPhase ==
    \A i \in DOMAIN run.errors : run.errors[i].phase \in RunPhases

ValidateSteps == {i \in DOMAIN run.steps : run.steps[i].name = "Validate"}

\* C15: the validation phase never makes the run fail: while validating,
\* the status stays validating and run.errors gets no entry, whatever the
\* records' results, whatever raises and whatever continue_on_error is, and
\* the phase is only left by entering the loading phase (the loader is
\* created).
C15_ValidationNeverFails ==
    [][pc = "validating" =>
          \/ /\ pc' = "validating"
             /\ run'.status = "validating"
             /\ run'.errors = run.errors
             /\ reports' = reports
          \/ /\ loader'.present
             /\ idx > Len(transformed)]_vars

C15_Witness ==
    /\ ~config.continue_on_error
    /\ load_calls # <<>>
    /\ \E i \in ValidateSteps :
          /\ run.steps[i].status = "failed"
          /\ run.steps[i].records_processed > 0
    /\ \E i \in ValidateSteps : run.steps[i].records_failed > 0

----------------------------------------------------------------------------
(* _deduplicate_records on its own: the records of one entity are drawn   *)
(* from DedupRecords, deduplicated, and the result deduplicated again     *)

\* the meta_data a transformed record carries: where it came from, and its
\* id in that source
MetaOf(service, id) == ("origin" :> service) @@ (service[1] :> id)

\* a TransformedRecord of the entity customer, derived from one source record
DedupRecord(id, service, email) ==
    [id |-> id,
     target_service |-> chargebee,
     target_entity |-> customer,
     data |-> [email |-> email, meta_data |-> MetaOf(service, id)],
     source_service |-> service,
     validation_errors |-> 0]

\* record ids are free strings: <<"a@x.com">> is an id that is also a key value
DedupIds == {<<"1">>, <<"a@x.com">>}

DedupEmails == {None, <<"a@x.com">>, <<"A@X.COM">>, <<"b@x.com">>}

DedupRecords ==
    {DedupRecord(id, service, email) :
        id \in DedupIds, service \in {stripe, salesforce}, email \in DedupEmails}

DedupConfigs ==
    [sources : {Sources},
     mapping_file : {NoMapping},
     continue_on_error : {TRUE},
     max_errors : {MaxErrorsBound},
     batch_size : {MaxBatchSize},
     deduplication : {TRUE},
     dedup_preferred_source : {None, stripe}]

DedupInit ==
    /\ config \in DedupConfigs
    /\ transformed \in
          {<<[k |-> Key(chargebee, customer), v |-> records]>> :
              records \in UNION {[1..n -> DedupRecords] : n \in 0..MaxDedupRecords}}
    /\ mapping = NoMapping
    /\ registry = {}
    /\ run = NewRun
    /\ extracted = <<>>
    /\ loader = NoLoader
    /\ pc = "dedup_input"
    /\ idx = 0
    /\ pos = 0
    /\ acc = <<>>
    /\ queue = <<>>
    /\ transform_calls = <<>>
    /\ load_calls = <<>>
    /\ reports = 0
    /\ faults = 0
    /\ last_rollback = NoRollback
    /\ ApiIdle
    /\ EngineIdle

\* _run_loading: organize by entity, then _deduplicate_records
DedupApply ==
    /\ pc = "dedup_input"
    /\ queue' = deduplicate_records(GroupByEntity(transformed, 1, <<>>),
                                    config.dedup_preferred_source)
    /\ pc' = "deduped"
    /\ UNCHANGED <<api_vars, engine_vars, config, mapping, registry, run, extracted, transformed, loader,
                   idx, pos, acc, transform_calls, load_calls, reports, faults,
                   last_rollback>>

\* _deduplicate_records applied to its own output
DedupReapply ==
    /\ pc = "deduped"
    /\ queue' = deduplicate_records(queue, config.dedup_preferred_source)
    /\ pc' = "rededuped"
    /\ UNCHANGED <<api_vars, engine_vars, config, mapping, registry, run, extracted, transformed, loader,
                   idx, pos, acc, transform_calls, load_calls, reports, faults,
                   last_rollback>>

DedupNext ==
    \/ DedupApply
    \/ DedupReapply

DedupSpec == DedupInit /\ [][DedupNext]_vars

\* the records handed to _deduplicate_records, and the records it returned
DedupInput == transformed[1].v

DedupOutput == queue[1].v

\* str(key_value).lower() of a record that has a key value
KeyOf(record) == Lower(record.data.email)

Keyed(records) == {i \in DOMAIN records : records[i].data.email # None}

\* the records of a list that carry a given lower-cased key value
Carriers(records, key) == {i \in Keyed(records) : KeyOf(records[i]) = key}

\* C16: after _deduplicate_records no two output records of the entity have
\* the same lower-cased key value, and every key value of the input is
\* carried by exactly one output record.
C16_OnePerKey ==
    pc = "deduped" =>
        /\ \A i, j \in Keyed(DedupOutput) :
              KeyOf(DedupOutput[i]) = KeyOf(DedupOutput[j]) => i = j
        /\ \A i \in Keyed(DedupInput) :
              Cardinality(Carriers(DedupOutput, KeyOf(DedupInput[i]))) = 1

Preferred(record) == record.source_service = config.dedup_preferred_source

\* the input has a record without key value whose id is the given key value
IdShadows(key) ==
    \E i \in DOMAIN DedupInput :
        DedupInput[i].data.email = None /\ DedupInput[i].id = key

Winner(key) ==
    DedupInput[CHOOSE p \in Carriers(DedupInput, key) :
                  /\ Preferred(DedupInput[p])
                  /\ \A q \in Carriers(DedupInput, key) :
                        Preferred(DedupInput[q]) => p <= q]

\* C18: when a preferred-source record wins over duplicates, its meta_data
\* afterwards has the keys of its own meta_data and of the losers' and no
\* others, and every key of its own meta_data keeps the winner's value, in
\* whatever order winner and losers arrive.
C18_WinnerAbsorbsMetaData ==
    pc = "deduped" =>
        \A i \in Keyed(DedupInput) :
            LET key == KeyOf(DedupInput[i])
                group == Carriers(DedupInput, key)
            IN  (/\ \E p \in group : Preferred(DedupInput[p])
                 /\ \E q \in group : ~Preferred(DedupInput[q])
                 /\ ~IdShadows(key)) =>
                    \A o \in Carriers(DedupOutput, key) :
                        LET meta == DedupOutput[o].data.meta_data
                            own == Winner(key).data.meta_data
                        IN  /\ DOMAIN meta =
                                  UNION {DOMAIN DedupInput[g].data.meta_data : g \in group}
                            /\ \A k \in DOMAIN own : meta[k] = own[k]

\* C19: a record without key value is never deduplicated: every such record
\* of the input is among the output records.
C19_KeylessRecordsKept ==
    pc = "deduped" =>
        \A i \in DOMAIN DedupInput :
            DedupInput[i].data.email = None =>
                \E o \in DOMAIN DedupOutput : DedupOutput[o] = DedupInput[i]

\* C20: _deduplicate_records applied to its own output returns the same
\* records, in the same order, with the same payloads.
C20_DedupIdempotent ==
    [][(pc = "deduped" /\ pc' = "rededuped") => queue' = queue]_vars

C20_Witness ==
    /\ pc = "rededuped"
    /\ Len(DedupInput) = 3
    /\ Len(DedupOutput) = 2
    /\ DedupOutput[1].id # DedupOutput[2].id
    /\ \E o \in DOMAIN DedupOutput :
          \A i \in DOMAIN DedupInput :
              DedupOutput[o].data.meta_data # DedupInput[i].data.meta_data

----------------------------------------------------------------------------
(* The migration routes of the api and their background task.              *)
(* One migration is stored.  A coroutine runs without interruption between *)
(* two awaits, so each action of a task is one such stretch of its code.   *)

\* no orchestrator is run
PipelineIdle ==
    /\ config = [sources |-> Sources, mapping_file |-> NoMapping,
                 continue_on_error |-> TRUE, max_errors |-> MaxErrorsBound,
                 batch_size |-> MaxBatchSize, deduplication |-> TRUE,
                 dedup_preferred_source |-> None]
    /\ mapping = NoMapping
    /\ registry = {}
    /\ run = NewRun
    /\ extracted = <<>>
    /\ transformed = <<>>
    /\ loader = NoLoader
    /\ pc = "unused"
    /\ idx = 0
    /\ pos = 0
    /\ acc = <<>>
    /\ queue = <<>>
    /\ transform_calls = <<>>
    /\ load_calls = <<>>
    /\ reports = 0
    /\ faults = 0
    /\ last_rollback = NoRollback

\* the phases list of run_migration_task
Phases == <<"extracting", "transforming", "validating", "loading">>

\* a stored migration: its status, and whether it has an entity mapping
Migrations == [status : {"draft"}, has_entity_mappings : BOOLEAN]

\* background_tasks.add_task(run_migration_task, migration_id)
add_task(by) == Append(tasks, [pc |-> "added", phase |-> 1, by |-> by])

ApiInit ==
    /\ migration_storage \in Migrations
    /\ tasks = <<>>
    /\ PipelineIdle
    /\ EngineIdle

\* POST /{migration_id}/start
start_migration ==
    /\ migration_storage.status \in {"draft", "failed"}
    /\ Len(tasks) < MaxTasks
    /\ migration_storage' = [migration_storage EXCEPT !.status = "pending"]
    /\ tasks' = add_task("start")
    /\ UNCHANGED <<pipeline_vars, engine_vars>>

\* POST /{migration_id}/pause
pause_migration ==
    /\ migration_storage.status \in {"extracting", "transforming", "validating", "loading"}
    /\ migration_storage' = [migration_storage EXCEPT !.status = "paused"]
    /\ UNCHANGED <<tasks, pipeline_vars, engine_vars>>

\* POST /{migration_id}/resume
resume_migration ==
    /\ migration_storage.status = "paused"
    /\ Len(tasks) < MaxTasks
    /\ tasks' = add_task("resume")
    /\ UNCHANGED <<migration_storage, pipeline_vars, engine_vars>>

\* POST /{migration_id}/cancel
cancel_migration ==
    /\ migration_storage' = [migration_storage EXCEPT !.status = "cancelled"]
    /\ UNCHANGED <<tasks, pipeline_vars, engine_vars>>

\* the head of the phase loop, up to its next await, entered for phase k by task i:
\* return if cancelled, sleep if paused, else write the phase status and start the
\* progress loop
EnterPhase(i, k) ==
    CASE migration_storage.status = "cancelled" ->
           /\ tasks' = [tasks EXCEPT ![i].pc = "done"]
           /\ UNCHANGED migration_storage
      [] migration_storage.status = "paused" ->
           /\ tasks' = [tasks EXCEPT ![i].pc = "sleeping", ![i].phase = k]
           /\ UNCHANGED migration_storage
      [] OTHER ->
           /\ tasks' = [tasks EXCEPT ![i].pc = "progress", ![i].phase = k]
           /\ migration_storage' = [migration_storage EXCEPT !.status = Phases[k]]

\* run_migration_task from its start: EntityMapping(...) is called without its
\* required name (and FieldMapping with a keyword config it does not have), a
\* TypeError, so a migration with an entity mapping goes to the except block
TaskStart(i) ==
    /\ tasks[i].pc = "added"
    /\ IF migration_storage.has_entity_mappings
       THEN /\ migration_storage' = [migration_storage EXCEPT !.status = "failed"]
            /\ tasks' = [tasks EXCEPT ![i].pc = "done"]
       ELSE EnterPhase(i, 1)
    /\ UNCHANGED <<pipeline_vars, engine_vars>>

\* asyncio.sleep(1) of the while-paused loop returns
TaskWake(i) ==
    /\ tasks[i].pc = "sleeping"
    /\ EnterPhase(i, tasks[i].phase)
    /\ UNCHANGED <<pipeline_vars, engine_vars>>

\* the progress loop and send_step_complete of a phase return: the next phase is
\* entered, or after the last phase completed is written
TaskPhaseDone(i) ==
    /\ tasks[i].pc = "progress"
    /\ IF tasks[i].phase < Len(Phases)
       THEN EnterPhase(i, tasks[i].phase + 1)
       ELSE /\ migration_storage' = [migration_storage EXCEPT !.status = "completed"]
            /\ tasks' = [tasks EXCEPT ![i].pc = "done"]
    /\ UNCHANGED <<pipeline_vars, engine_vars>>

\* one stretch of task i
TaskStep(i) ==
    \/ TaskStart(i)
    \/ TaskWake(i)
    \/ TaskPhaseDone(i)

TaskNext == \E i \in DOMAIN tasks : TaskStep(i)

ApiNext ==
    \/ start_migration
    \/ pause_migration
    \/ resume_migration
    \/ cancel_migration
    \/ TaskNext

ApiSpec == ApiInit /\ [][ApiNext]_vars

\* the event loop runs every task that is ready
ApiFairSpec == ApiSpec /\ \A i \in 1..MaxTasks : WF_vars(i \in DOMAIN tasks /\ TaskStep(i))

\* C21: once the status is cancelled or paused, no stretch of a run_migration_task
\* writes the status: it is not overwritten by a phase status, by completed or by
\* failed, wherever the task was when the cancel or pause arrived
C21_TaskRespectsCancelAndPause ==
    [][(TaskNext /\ migration_storage.status \in {"cancelled", "paused"})
          => migration_storage' = migration_storage]_vars

\* a resume_migration was accepted and the migration is still paused
ResumedWhilePaused ==
    /\ migration_storage.status = "paused"
    /\ \E i \in DOMAIN tasks : tasks[i].by = "resume"

\* C22: a migration that was paused and then resumed eventually leaves the paused
\* status
C22_ResumeLeavesPaused == ResumedWhilePaused ~> (migration_storage.status # "paused")

----------------------------------------------------------------------------
(* Run control of the orchestrator: MigrationStatus has the members paused *)
(* and cancelled, and run.status is a plain attribute that the owner of    *)
(* the orchestrator can assign while _run_loading is between two awaits.   *)

\* orchestrator.run.status = MigrationStatus.PAUSED / CANCELLED, assigned from
\* outside while the loading phase is under way
SetRunControl ==
    /\ pc = "loading"
    /\ run.status = "loading"
    /\ \E s \in {"paused", "cancelled"} : run' = [run EXCEPT !.status = s]
    /\ UNCHANGED <<api_vars, engine_vars, config, mapping, registry, extracted,
                   transformed, loader, pc, idx, pos, acc, queue, transform_calls,
                   load_calls, reports, faults, last_rollback>>

ControlNext ==
    \/ Next
    \/ SetRunControl

ControlSpec == Init /\ [][ControlNext]_vars

\* C23: while run.status is paused or cancelled no further batch is handed to the
\* loader, and a cancelled run does not end as completed
C23_NoBatchWhileHalted ==
    [][run.status \in {"paused", "cancelled"}
          => /\ load_calls' = load_calls
             /\ (run.status = "cancelled" => run'.status # "completed")]_vars

----------------------------------------------------------------------------
(* TransformEngine: values.                                                *)
(* A Python value is a pair <<type, content>>.  A dict that                *)
(* lives in the payload of a source record is an object that several names *)
(* can refer to: Root(i) is the payload of source record i and Ref(i, k)   *)
(* the dict stored under key k of that payload, so that a write through    *)
(* one name is seen through every other.  Paths are sequences of the parts *)
(* that split(".") yields; the paths of the model have no array indices.   *)

NoneV == <<"none", <<>>>>

Str(s) == <<"str", s>>

Num(n) == <<"num", n>>

ListV(l) == <<"list", l>>

DictV(d) == <<"dict", d>>

Root(i) == <<"root", <<i>>>>

Ref(i, k) == <<"ref", <<i, k>>>>

\* the object a name refers to; h is the list of source records
Deref(h, val) ==
    CASE val[1] = "root" -> DictV(h[val[2][1]].data)
      [] val[1] = "ref" -> DictGet(h[val[2][1]].data, val[2][2], NoneV)
      [] OTHER -> val

\* isinstance(value, dict)
IsDict(h, val) == Deref(h, val)[1] = "dict"

\* value.get(part) on a dict
Child(h, val, part) ==
    LET c == DictGet(Deref(h, val)[2], part, NoneV)
    IN IF val[1] = "root" /\ c[1] = "dict" THEN Ref(val[2][1], part) ELSE c

\* bool(value)
Truthy(h, val) ==
    LET d == Deref(h, val)
    IN CASE d[1] = "none" -> FALSE
         [] d[1] = "num" -> d[2] # 0
         [] OTHER -> d[2] # <<>>

\* str(value)
StrOf(h, val) ==
    LET d == Deref(h, val)
    IN CASE d[1] = "str" -> d[2]
         [] d[1] = "none" -> <<"None">>
         [] d[1] = "num" -> <<ToString(d[2])>>
         [] OTHER -> <<"repr">>

\* str.upper() on one word
UpperWord(w) ==
    CASE w = "a@x.com" -> "A@X.COM"
      [] w = "b@x.com" -> "B@X.COM"
      [] OTHER -> w

\* str.upper()
Upper(s) == [i \in DOMAIN s |-> UpperWord(s[i])]

\* what a transform function did: raised, or returned v
Returns(v) == [raised |-> FALSE, v |-> v]

Raises == [raised |-> TRUE, v |-> NoneV]

RECURSIVE get_nested_value(_, _, _)
get_nested_value(h, data, path) ==
    IF path = <<>> THEN data
    ELSE IF data[1] = "none" THEN NoneV
    ELSE IF IsDict(h, data)
    THEN get_nested_value(h, Child(h, data, Head(path)), Tail(path))
    ELSE NoneV

\* transform_record: combined_data[record.source_service] = record.data
RECURSIVE combined_data_loop(_, _, _)
combined_data_loop(h, i, combined_data) ==
    IF i > Len(h) THEN combined_data
    ELSE combined_data_loop(h, i + 1, DictSet(combined_data, h[i].source_service, i))

\* _get_source_value: try each source record
RECURSIVE probe(_, _, _)
probe(h, field_path, i) ==
    IF i > Len(h) THEN NoneV
    ELSE LET found == get_nested_value(h, Root(i), field_path)
         IN IF found[1] # "none" THEN found ELSE probe(h, field_path, i + 1)

\* combined_data.get(service, {})
ServiceData(combined_data, service) ==
    IF DictHas(combined_data, service)
    THEN Root(DictGet(combined_data, service, 0))
    ELSE DictV(<<>>)

\* the test of _get_source_value for a path that names a service
HasServicePrefix(h, field_path) ==
    /\ Len(field_path) > 1
    /\ \E i \in DOMAIN h : Lower(h[i].source_service) = <<LowerWord(field_path[1])>>

get_source_value(h, field_path, combined_data) ==
    IF field_path = <<>> THEN NoneV
    ELSE IF HasServicePrefix(h, field_path)
    THEN get_nested_value(h, ServiceData(combined_data, <<LowerWord(field_path[1])>>),
                          Tail(field_path))
    ELSE probe(h, field_path, 1)

----------------------------------------------------------------------------
(* TransformEngine: transform functions *)

\* a FieldMapping.transform_config: the keys that the transforms of the model read
TransformConfig(function, has_field_mapping, field_mapping, has_null_up_to, null_up_to) ==
    [function |-> function,
     has_field_mapping |-> has_field_mapping, field_mapping |-> field_mapping,
     has_null_up_to |-> has_null_up_to, null_up_to |-> null_up_to]

\* field(default_factory=dict)
NoConfig == TransformConfig("", FALSE, <<>>, FALSE, NoneV)

\* the default of config.get("field_mapping", ...)
DefaultTierFieldMapping ==
    <<[k |-> "up_to", v |-> "ending_unit"], [k |-> "unit_amount", v |-> "price"]>>

\* the default of config.get("null_up_to", "inf")
DefaultNullUpTo == Str(<<"inf">>)

\* for source_key, target_key in field_mapping.items()
RECURSIVE map_price_fields(_, _, _, _)
map_price_fields(tier, field_mapping, i, mapped_tier) ==
    IF i > Len(field_mapping) THEN mapped_tier
    ELSE map_price_fields(tier, field_mapping, i + 1,
            IF DictHas(tier, field_mapping[i].k)
            THEN DictSet(mapped_tier, field_mapping[i].v,
                         DictGet(tier, field_mapping[i].k, NoneV))
            ELSE mapped_tier)

\* the ending_unit first given to a band
ending_unit(up_to, null_up_to) == IF up_to[1] = "none" THEN null_up_to ELSE up_to

\* starting_unit = (up_to or 0) + 1
next_starting_unit_keeps(up_to, starting_unit) == starting_unit

next_starting_unit(up_to, starting_unit) == (IF up_to[1] = "num" THEN up_to[2] ELSE 0) + 1

\* for tier in value: tier.get on an element that is no dict, and + on an up_to
\* that is neither a number nor None, raise
RECURSIVE tier_loop(_, _, _, _, _, _)
tier_loop(tiers, i, field_mapping, null_up_to, starting_unit, result) ==
    IF i > Len(tiers) THEN Returns(ListV(result))
    ELSE IF tiers[i][1] # "dict" THEN Raises
    ELSE LET tier == tiers[i][2]
             up_to == DictGet(tier, "up_to", NoneV)
             band == <<[k |-> "starting_unit", v |-> Num(starting_unit)],
                       [k |-> "ending_unit", v |-> ending_unit(up_to, null_up_to)]>>
             mapped_tier == map_price_fields(tier, field_mapping, 1, band)
         IN IF up_to[1] \notin {"none", "num"} THEN Raises
            ELSE tier_loop(tiers, i + 1, field_mapping, null_up_to,
                           next_starting_unit(up_to, starting_unit),
                           Append(result, DictV(mapped_tier)))

transform_tier_mapping(val, cfg) ==
    IF val[1] # "list" THEN Returns(val)
    ELSE tier_loop(val[2], 1,
                   IF cfg.has_field_mapping THEN cfg.field_mapping
                                            ELSE DefaultTierFieldMapping,
                   IF cfg.has_null_up_to THEN cfg.null_up_to ELSE DefaultNullUpTo,
                   1, <<>>)

transform_uppercase(h, val) ==
    IF val[1] = "none" THEN Returns(NoneV) ELSE Returns(Str(Upper(StrOf(h, val))))

\* the keys of _builtin_transforms that the mappings of the model use
BuiltinTransforms == {"direct", "uppercase", "tier_mapping"}

builtin_transform(name, h, val, cfg) ==
    CASE name = "direct" -> Returns(val)
      [] name = "uppercase" -> transform_uppercase(h, val)
      [] name = "tier_mapping" -> transform_tier_mapping(val, cfg)

\* register_transform("slug", func) was called on the engine
CustomTransforms == {"slug"}

\* the registered function: it marks its argument
custom_transform(name, h, val) == Returns(Str(<<name>> \o StrOf(h, val)))

\* transform_record: choice and call of the transform function
apply_transform(h, fm, val) ==
    IF fm.transform \in CustomTransforms
    THEN [out |-> custom_transform(fm.transform, h, val), warned |-> FALSE]
    ELSE IF fm.transform \in BuiltinTransforms
    THEN [out |-> builtin_transform(fm.transform, h, val, fm.transform_config),
          warned |-> FALSE]
    ELSE IF fm.transform = "custom" /\ fm.transform_config.function \in CustomTransforms
    THEN [out |-> custom_transform(fm.transform_config.function, h, val),
          warned |-> FALSE]
    ELSE [out |-> Returns(val), warned |-> TRUE]

----------------------------------------------------------------------------
(* TransformEngine: conditions.  A condition is the list of its words, and *)
(* the fields it names have a single part.                                 *)

\* the positions of " op " in the condition
OpAt(condition, op) == {i \in 2..(Len(condition) - 1) : condition[i] = op}

\* field.strip() as a path
ConditionField(words) == IF Len(words) = 1 THEN words ELSE <<"?">>

\* the values of the field in combined_data.values()
ConditionValues(h, combined_data, field) ==
    {get_nested_value(h, Root(combined_data[j].v), field) : j \in DOMAIN combined_data}

\* condition.split(" op ") into two parts raises ValueError unless there are two
ConditionRaises(condition) ==
    /\ ~(\E i \in 2..Len(condition) : condition[i] = "exists")
    /\ \/ Cardinality(OpAt(condition, "==")) > 1
       \/ OpAt(condition, "==") = {} /\ Cardinality(OpAt(condition, "!=")) > 1

\* the condition has none of " exists", " == ", " != "
ConditionUnparsed(condition) ==
    /\ ~(\E i \in 2..Len(condition) : condition[i] = "exists")
    /\ OpAt(condition, "==") = {}
    /\ OpAt(condition, "!=") = {}

\* the three forms of condition that _evaluate_condition recognises
recognised_condition(h, condition, combined_data) ==
    IF \E i \in 2..Len(condition) : condition[i] = "exists"
    THEN LET field == ConditionField(SelectSeq(condition, LAMBDA w : w # "exists"))
         IN \E found \in ConditionValues(h, combined_data, field) : found[1] # "none"
    ELSE IF OpAt(condition, "==") # {}
    THEN LET i == CHOOSE i \in OpAt(condition, "==") : TRUE
             field == ConditionField(SubSeq(condition, 1, i - 1))
             expected == SubSeq(condition, i + 1, Len(condition))
         IN \E found \in ConditionValues(h, combined_data, field) :
                StrOf(h, found) = expected
    ELSE LET i == CHOOSE i \in OpAt(condition, "!=") : TRUE
             field == ConditionField(SubSeq(condition, 1, i - 1))
             expected == SubSeq(condition, i + 1, Len(condition))
         IN \E found \in ConditionValues(h, combined_data, field) :
                StrOf(h, found) # expected

evaluate_condition_fail_closed(h, condition, combined_data) ==
    IF ConditionRaises(condition) \/ ConditionUnparsed(condition) THEN FALSE
    ELSE recognised_condition(h, condition, combined_data)

\* _evaluate_condition: the except block and the final return give True
evaluate_condition(h, condition, combined_data) ==
    IF ConditionRaises(condition) \/ ConditionUnparsed(condition) THEN TRUE
    ELSE recognised_condition(h, condition, combined_data)

----------------------------------------------------------------------------
(* TransformEngine: transform_record *)

\* _set_nested_value for a path of one or two parts: assignment into a value
\* that is no dict raises TypeError
set_nested_value(h, target_data, path, val) ==
    IF Len(path) = 1
    THEN [raised |-> FALSE, h |-> h, target_data |-> DictSet(target_data, path[1], val)]
    ELSE LET created == IF DictHas(target_data, path[1]) THEN target_data
                        ELSE DictSet(target_data, path[1], DictV(<<>>))
             current == DictGet(created, path[1], NoneV)
         IN CASE current[1] = "dict" ->
                   [raised |-> FALSE, h |-> h,
                    target_data |-> DictSet(created, path[1],
                                            DictV(DictSet(current[2], path[2], val)))]
              [] current[1] = "ref" ->
                   [raised |-> FALSE, target_data |-> created,
                    h |-> [h EXCEPT ![current[2][1]].data =
                              DictSet(@, current[2][2],
                                      DictV(DictSet(Deref(h, current)[2], path[2], val)))]]
              [] OTHER -> [raised |-> TRUE, h |-> h, target_data |-> target_data]

\* one iteration of the loop over mapping.field_mappings; the trace keeps, for each
\* iteration, whether the mapping was applied, the source value it resolved, the
\* source records as they were before it, and target_data, errors and warnings
\* after it
transform_field(st, fm, combined_data) ==
    IF fm.condition # <<>> /\ ~evaluate_condition(st.h, fm.condition, combined_data)
    THEN [st EXCEPT !.trace = Append(@, [applied |-> FALSE, source_value |-> NoneV,
                                        h |-> st.h, target_data |-> st.target_data,
                                        errors |-> st.errors, warnings |-> st.warnings])]
    ELSE LET source_value == get_source_value(st.h, fm.source_field, combined_data)
             called == apply_transform(st.h, fm, source_value)
             transformed_value ==
                 IF called.out.v[1] = "none" /\ fm.default_value[1] # "none"
                 THEN fm.default_value ELSE called.out.v
             assigned ==
                 IF called.out.raised \/ transformed_value[1] = "none"
                 THEN [raised |-> FALSE, h |-> st.h, target_data |-> st.target_data]
                 ELSE set_nested_value(st.h, st.target_data, fm.target_field,
                                       transformed_value)
             errors == IF called.out.raised \/ assigned.raised
                       THEN Append(st.errors, [field |-> fm.target_field,
                                               error_type |-> "transform"])
                       ELSE st.errors
             warnings == st.warnings + (IF called.warned THEN 1 ELSE 0)
         IN [h |-> assigned.h, target_data |-> assigned.target_data,
             errors |-> errors, warnings |-> warnings,
             trace |-> Append(st.trace, [applied |-> TRUE, source_value |-> source_value,
                                         h |-> st.h, target_data |-> assigned.target_data,
                                         errors |-> errors, warnings |-> warnings])]

RECURSIVE field_loop(_, _, _, _)
field_loop(st, fms, i, combined_data) ==
    IF i > Len(fms) THEN st
    ELSE field_loop(transform_field(st, fms[i], combined_data), fms, i + 1, combined_data)

\* _generate_target_id
RECURSIVE generate_target_id(_, _, _)
generate_target_id(h, fms, i) ==
    IF i > Len(fms)
    THEN IF h # <<>> THEN Returns(Str(h[1].source_service \o h[1].id))
                     ELSE Returns(Str(<<>>))
    ELSE LET source_value == get_source_value(h, fms[i].source_field, <<>>)
         IN IF fms[i].target_field = <<"id">> /\ Truthy(h, source_value)
            THEN IF fms[i].transform \in BuiltinTransforms
                 THEN builtin_transform(fms[i].transform, h, source_value,
                                        fms[i].transform_config)
                 ELSE Returns(Str(StrOf(h, source_value)))
            ELSE generate_target_id(h, fms, i + 1)

\* transform_record: the TransformedRecord it returns, or that it raised; the
\* field source_records holds the source records as they are after the call
transform_record(records, fms) ==
    LET combined_data == combined_data_loop(records, 1, <<>>)
        target_id == generate_target_id(records, fms, 1)
        st == field_loop([h |-> records, target_data |-> <<>>, errors |-> <<>>,
                          warnings |-> 0, trace |-> <<>>],
                         fms, 1, combined_data)
    IN IF target_id.raised
       THEN [raised |-> TRUE, id |-> NoneV, data |-> <<>>, source_records |-> records,
             validation_errors |-> <<>>, warnings |-> 0, trace |-> <<>>]
       ELSE [raised |-> FALSE, id |-> target_id.v, data |-> st.target_data,
             source_records |-> st.h, validation_errors |-> st.errors,
             warnings |-> st.warnings, trace |-> st.trace]

----------------------------------------------------------------------------
(* transform_record on its own: the source records and the field mappings  *)
(* are drawn at the start, and one action makes the call.                  *)

\* a SourceRecord with its payload
EngineRecord(id, service, data) ==
    [id |-> id, source_service |-> service, source_entity |-> customer, data |-> data]

Payload(email, city) ==
    <<[k |-> "email", v |-> email], [k |-> "address", v |-> DictV(<<[k |-> "city", v |-> city]>>)]>>

\* the lists of source records handed to transform_record: one record, records of
\* two services in both orders, a service name in mixed case, a payload without
\* email, an empty email, a list of numbers under tiers
SourceRecordLists ==
    LET r1 == EngineRecord(<<"1">>, stripe, Payload(Str(<<"a@x.com">>), Str(<<"Paris">>)))
        r2 == EngineRecord(<<"2">>, salesforce, Payload(Str(<<"b@x.com">>), Str(<<"Rome">>)))
        r3 == EngineRecord(<<"3">>, <<"Stripe">>,
                           <<[k |-> "email", v |-> Str(<<"a@x.com">>)],
                             [k |-> "tiers", v |-> ListV(<<Num(1)>>)]>>)
        r4 == EngineRecord(<<"4">>, salesforce,
                           <<[k |-> "address", v |-> DictV(<<>>)]>>)
        r5 == EngineRecord(<<"5">>, stripe, <<[k |-> "email", v |-> Str(<<>>)]>>)
    IN {<<r1>>, <<r3>>, <<r5>>, <<r1, r2>>, <<r2, r1>>, <<r4, r1>>, <<r3, r2>>}

FieldMapping(source_field, target_field, transform, function, default_value, condition) ==
    [source_field |-> source_field, target_field |-> target_field,
     transform |-> transform,
     transform_config |-> TransformConfig(function, FALSE, <<>>, FALSE, NoneV),
     default_value |-> default_value, condition |-> condition]

\* the field mappings a mapping is made of
FieldMappingPool ==
    {FieldMapping(<<"email">>, <<"email">>, "direct", "", NoneV, <<>>),
     FieldMapping(<<"address">>, <<"address">>, "direct", "", NoneV, <<>>),
     FieldMapping(<<"email">>, <<"address", "city">>, "direct", "", NoneV, <<>>),
     FieldMapping(<<"stripe", "email">>, <<"contact">>, "uppercase", "", NoneV, <<>>),
     FieldMapping(<<"STRIPE", "address", "city">>, <<"city">>, "direct", "", NoneV, <<>>),
     FieldMapping(<<"email">>, <<"id">>, "uppercase", "", NoneV, <<>>),
     FieldMapping(<<"stripe", "email">>, <<"id">>, "direct", "", NoneV, <<>>),
     FieldMapping(<<"email">>, <<"id">>, "custom", "slug", NoneV, <<>>),
     FieldMapping(<<"tiers">>, <<"id">>, "tier_mapping", "", NoneV, <<>>),
     FieldMapping(<<"tiers">>, <<"plan">>, "tier_mapping", "", NoneV, <<>>),
     FieldMapping(<<>>, <<"status">>, "direct", "", Str(<<"new">>),
                  <<"address", "exists">>),
     FieldMapping(<<"email">>, <<"note">>, "format", "", Str(<<"new">>),
                  <<"email", "==", "a@x.com">>),
     FieldMapping(<<"email">>, <<"note">>, "direct", "", NoneV,
                  <<"email", "!=", "a@x.com">>),
     FieldMapping(<<"email">>, <<"note">>, "direct", "", NoneV,
                  <<"email", "is", "set">>),
     FieldMapping(<<"email">>, <<"note">>, "direct", "", NoneV,
                  <<"email", "==", "a@x.com", "==", "b@x.com">>)}

TransformInit ==
    /\ source_records \in SourceRecordLists
    /\ field_mappings \in UNION {[1..n -> FieldMappingPool] : n \in 0..MaxFieldMappings}
    /\ value = <<>>
    /\ transform_config = <<>>
    /\ returned = <<>>
    /\ PipelineIdle
    /\ ApiIdle

\* engine.transform_record(source_records, mapping, ...)
TransformApply ==
    /\ returned = <<>>
    /\ returned' = <<transform_record(source_records, field_mappings)>>
    /\ UNCHANGED <<source_records, field_mappings, value, transform_config,
                   pipeline_vars, api_vars>>

TransformNext == TransformApply

TransformSpec == TransformInit /\ [][TransformNext]_vars

\* the call was made, and what it returned
Transformed == returned # <<>>

Output == returned[1]

\* C24: after transform_record the payload of every source record equals its
\* payload at creation
C24_SourcePayloadUnchanged ==
    Transformed =>
        \A i \in DOMAIN source_records :
            Output.source_records[i].data = source_records[i].data

\* the source records whose service name the prefix of the path spells
Named(h, field_path) ==
    {i \in DOMAIN h : Lower(h[i].source_service) = <<LowerWord(field_path[1])>>}

\* the value of the path in the payload of source record i
InPayload(h, i, path) == get_nested_value(h, Root(i), path)

\* C25: a source path prefixed with the name of a source record's service resolves
\* to the value in that record's payload; any other path resolves to the value of
\* the first source record, in the order supplied, in which it is not absent
C25_SourceValueResolution ==
    (Transformed /\ ~Output.raised) =>
        \A j \in DOMAIN field_mappings :
            LET path == field_mappings[j].source_field
                step == Output.trace[j]
            IN (step.applied /\ path # <<>>) =>
                  IF Len(path) > 1 /\ Named(step.h, path) # {}
                  THEN \E i \in Named(step.h, path) :
                          step.source_value = InPayload(step.h, i, Tail(path))
                  ELSE \/ \E i \in DOMAIN step.h :
                             /\ InPayload(step.h, i, path)[1] # "none"
                             /\ \A l \in 1..(i - 1) : InPayload(step.h, l, path)[1] = "none"
                             /\ step.source_value = InPayload(step.h, i, path)
                       \/ /\ \A i \in DOMAIN step.h : InPayload(step.h, i, path)[1] = "none"
                          /\ step.source_value[1] = "none"

\* C26: transform_record does not raise, whatever the mapping and the source
\* records
C26_TransformRecordNeverRaises == Transformed => ~Output.raised

\* the field mappings that target "id" and whose source value, resolved as for any
\* other field, is present
IdMappings ==
    {j \in DOMAIN field_mappings :
        /\ field_mappings[j].target_field = <<"id">>
        /\ Truthy(source_records,
                  get_source_value(source_records, field_mappings[j].source_field,
                                   combined_data_loop(source_records, 1, <<>>)))}

\* C27: the id is the result of the transform operator (built-in or registered
\* custom) of the first field mapping that targets "id", applied to its source
\* value resolved as for any other field; without one it is
\* "{source_service}_{id}" of the first source record
C27_TargetId ==
    (Transformed /\ ~Output.raised /\ source_records # <<>>) =>
        IF IdMappings # {}
        THEN LET j == CHOOSE j \in IdMappings : \A l \in IdMappings : j <= l
                 fm == field_mappings[j]
                 resolved == get_source_value(source_records, fm.source_field,
                                              combined_data_loop(source_records, 1, <<>>))
             IN Output.id = apply_transform(source_records, fm, resolved).out.v
        ELSE Output.id = Str(source_records[1].source_service \o source_records[1].id)

\* target_data, errors and warnings as they were before field mapping j
Before(j) ==
    IF j = 1 THEN [target_data |-> <<>>, errors |-> <<>>, warnings |-> 0]
    ELSE [target_data |-> Output.trace[j - 1].target_data,
          errors |-> Output.trace[j - 1].errors,
          warnings |-> Output.trace[j - 1].warnings]

\* C28: a field mapping whose condition evaluates to false is skipped: target_data,
\* errors and warnings stay as they were, the default_value included; a condition
\* that cannot be parsed or whose evaluation raises counts as true, so the mapping
\* is applied
C28_FalseConditionSkips ==
    (Transformed /\ ~Output.raised) =>
        \A j \in DOMAIN field_mappings :
            LET fm == field_mappings[j]
                step == Output.trace[j]
                combined_data == combined_data_loop(source_records, 1, <<>>)
            IN /\ (fm.condition # <<>>
                      /\ ~ConditionRaises(fm.condition) /\ ~ConditionUnparsed(fm.condition)
                      /\ ~recognised_condition(step.h, fm.condition, combined_data))
                   => /\ ~step.applied
                      /\ step.target_data = Before(j).target_data
                      /\ step.errors = Before(j).errors
                      /\ step.warnings = Before(j).warnings
               /\ (fm.condition # <<>>
                      /\ (ConditionRaises(fm.condition) \/ ConditionUnparsed(fm.condition)))
                   => step.applied

\* a mapping with a default_value was skipped on a false condition, and a mapping
\* whose condition raises was applied and wrote its value
C28_Witness ==
    /\ Transformed
    /\ ~Output.raised
    /\ \E j \in DOMAIN field_mappings :
          /\ field_mappings[j].condition # <<>>
          /\ field_mappings[j].default_value[1] # "none"
          /\ ~Output.trace[j].applied
    /\ \E j \in DOMAIN field_mappings :
          /\ ConditionRaises(field_mappings[j].condition)
          /\ Output.trace[j].applied
          /\ Output.trace[j].target_data # Before(j).target_data

----------------------------------------------------------------------------
(* tier_mapping on its own: the list of tiers and the transform_config are *)
(* drawn at the start, and one action makes the call.                      *)

\* a tier {"up_to": ..., "unit_amount": 5}; the key up_to may be missing
Tiers ==
    {<<[k |-> "up_to", v |-> up_to], [k |-> "unit_amount", v |-> Num(5)]>> :
        up_to \in {Num(n) : n \in 0..MaxUpTo} \cup {NoneV}}
    \cup {<<[k |-> "unit_amount", v |-> Num(5)]>>}

\* transform_config: field_mapping left out, given without up_to, or given with it;
\* null_up_to left out or given
TierConfigs ==
    {TransformConfig("", has_field_mapping, field_mapping, has_null_up_to, Str(<<"max">>)) :
        has_field_mapping \in {TRUE}, has_null_up_to \in BOOLEAN,
        field_mapping \in {<<[k |-> "unit_amount", v |-> "amount"]>>,
                           <<[k |-> "up_to", v |-> "ending_unit"],
                             [k |-> "unit_amount", v |-> "amount"]>>}}
    \cup {TransformConfig("", FALSE, <<>>, has_null_up_to, Str(<<"max">>)) :
             has_null_up_to \in BOOLEAN}

TierInit ==
    /\ value \in {ListV([i \in DOMAIN tiers |-> DictV(tiers[i])]) :
                     tiers \in UNION {[1..n -> Tiers] : n \in 0..MaxTiers}}
    /\ transform_config \in TierConfigs
    /\ source_records = <<>>
    /\ field_mappings = <<>>
    /\ returned = <<>>
    /\ PipelineIdle
    /\ ApiIdle

\* self._transform_tier_mapping(value, config, data, ctx)
TierApply ==
    /\ returned = <<>>
    /\ returned' = <<transform_tier_mapping(value, transform_config)>>
    /\ UNCHANGED <<source_records, field_mappings, value, transform_config,
                   pipeline_vars, api_vars>>

TierNext == TierApply

TierSpec == TierInit /\ [][TierNext]_vars

\* up_to of tier i of the input
UpTo(i) == DictGet(value[2][i][2], "up_to", NoneV)

\* band i of the output, and one of its fields
Band(i, key) == DictGet(returned[1].v[2][i][2], key, NoneV)

\* the tiers are ascending: every up_to but the last is a number, and they increase
Ascending ==
    /\ \A i \in 1..(Len(value[2]) - 1) : UpTo(i)[1] = "num"
    /\ \A i \in 1..(Len(value[2]) - 2) : UpTo(i)[2] < UpTo(i + 1)[2]
    /\ Len(value[2]) > 1 /\ UpTo(Len(value[2]))[1] = "num"
          => UpTo(Len(value[2]) - 1)[2] < UpTo(Len(value[2]))[2]

\* C29: for an ascending list of tiers the first band starts at 1 and the
\* ending_unit of every band plus 1 is the starting_unit of the next
C29_BandsContiguous ==
    (returned # <<>> /\ Ascending /\ value[2] # <<>>) =>
        /\ ~returned[1].raised
        /\ Len(returned[1].v[2]) = Len(value[2])
        /\ Band(1, "starting_unit") = Num(1)
        /\ \A i \in 1..(Len(value[2]) - 1) :
              /\ Band(i, "ending_unit")[1] = "num"
              /\ Band(i + 1, "starting_unit") = Num(Band(i, "ending_unit")[2] + 1)

\* an ascending list of at least two tiers was mapped
C29_Witness ==
    /\ returned # <<>>
    /\ Ascending
    /\ Len(value[2]) >= 2
    /\ Band(2, "starting_unit")[2] > 1

\* C30: the band of a last tier whose up_to is missing or null has the sentinel
\* null_up_to ("inf" unless configured) as its ending_unit
C30_OpenEndedSentinel ==
    (returned # <<>> /\ value[2] # <<>> /\ UpTo(Len(value[2]))[1] = "none") =>
        /\ ~returned[1].raised
        /\ Band(Len(value[2]), "ending_unit") =
              (IF transform_config.has_null_up_to THEN transform_config.null_up_to
                                                  ELSE Str(<<"inf">>))

----------------------------------------------------------------------------
(* RecordValidator.validate_record on its own.  A field name or path is    *)
(* the sequence of its parts between dots, a string value is the sequence  *)
(* of its characters.  value is the data of the TransformedRecord,         *)
(* transform_config holds the schema fields and the strict flag, returned  *)
(* is the list of the calls made so far.                                   *)

\* FieldDefinition; max_length 0 and enum_values <<>> and properties <<>> are None
FieldDefinition(type, required, max_length, enum_values, properties) ==
    [type |-> type, required |-> required, max_length |-> max_length,
     enum_values |-> enum_values, properties |-> properties]

\* ValidationError(field, message, error_type, severity, value); the message is
\* fixed by the other fields
ValidationError(field, error_type, severity, val) ==
    [field |-> field, error_type |-> error_type, severity |-> severity, value |-> val]

\* type_checks.get(expected_type) applied to the value; a type without a
\* check passes
validate_type(field_name, val, expected_type) ==
    LET ok == CASE expected_type \in {"string", "enum"} -> val[1] = "str"
                [] expected_type = "integer" -> val[1] = "num"
                [] expected_type = "object" -> val[1] = "dict"
                [] OTHER -> TRUE
    IN IF ok THEN <<>> ELSE <<ValidationError(field_name, "type", "error", val)>>

RECURSIVE validate_field(_, _, _)
validate_field(field_name, val, field_def) ==
    IF field_def.required /\ val = NoneV
    THEN <<ValidationError(field_name, "required", "error", NoneV)>>
    ELSE IF val = NoneV THEN <<>>
    ELSE validate_type(field_name, val, field_def.type)
         \o (IF field_def.max_length # 0 /\ val[1] = "str"
                /\ Len(val[2]) > field_def.max_length
             THEN <<ValidationError(field_name, "max_length", "error", Num(Len(val[2])))>>
             ELSE <<>>)
         \o (IF field_def.enum_values # <<>>
                /\ \A i \in DOMAIN field_def.enum_values : field_def.enum_values[i] # val
             THEN <<ValidationError(field_name, "enum", "error", val)>>
             ELSE <<>>)
         \o (IF field_def.type = "object" /\ field_def.properties # <<>> /\ val[1] = "dict"
             THEN Concat([i \in DOMAIN field_def.properties |->
                     validate_field(Append(field_name, field_def.properties[i].k),
                                    DictGet(val[2], field_def.properties[i].k, NoneV),
                                    field_def.properties[i].v)])
             ELSE <<>>)

\* RecordValidator._get_nested_value
RECURSIVE validator_get_nested_value(_, _)
validator_get_nested_value(val, parts) ==
    IF parts = <<>> THEN val
    ELSE IF val[1] = "dict"
         THEN validator_get_nested_value(DictGet(val[2], Head(parts), NoneV), Tail(parts))
         ELSE NoneV

RECURSIVE get_all_field_paths(_, _)
get_all_field_paths(data, prefix) ==
    Concat([i \in DOMAIN data |->
        <<Append(prefix, data[i].k)>>
        \o (IF data[i].v[1] = "dict"
            THEN get_all_field_paths(data[i].v[2], Append(prefix, data[i].k))
            ELSE <<>>)])

\* field.startswith("meta_data"): the first part of the path begins with it
StartsWithMetaData(field) == Head(field) \in {"meta_data", "meta_data_extra"}

\* the errors of the fields of the schema
schema_errors(data, fields) ==
    Concat([i \in DOMAIN fields |->
        validate_field(fields[i].k,
                       validator_get_nested_value(DictV(data), fields[i].k),
                       fields[i].v)])

\* the loop over record_fields
unknown_errors(paths, fields) ==
    Concat([i \in DOMAIN paths |->
        IF (\A j \in DOMAIN fields : fields[j].k # <<Head(paths[i])>>)
           /\ ~StartsWithMetaData(paths[i])
        THEN <<ValidationError(paths[i], "validation", "error", NoneV)>>
        ELSE <<>>])

\* as validate_record, but the loop over record_fields stops at the first unknown field
validate_record_first_unknown(data, fields, strict) ==
    LET unknown == unknown_errors(get_all_field_paths(data, <<>>), fields)
    IN schema_errors(data, fields)
       \o (IF strict /\ unknown # <<>> THEN <<Head(unknown)>> ELSE <<>>)

validate_record(data, fields, strict) ==
    schema_errors(data, fields)
    \o (IF strict THEN unknown_errors(get_all_field_paths(data, <<>>), fields) ELSE <<>>)

\* the data of the records validated
RecordDatas ==
    {<<[k |-> "email", v |-> email], [k |-> "extra", v |-> Num(1)],
       [k |-> "meta_data", v |-> DictV(<<[k |-> "origin", v |-> Str(<<"s">>)]>>)]>> :
        email \in {NoneV, Num(7), Str(<<"a">>), Str(<<"a", "b", "c">>)}}
    \cup
    {<<[k |-> "email", v |-> Str(<<"a">>)],
       [k |-> "address", v |-> address],
       [k |-> "meta_data_extra", v |-> Num(1)]>> :
        address \in {Str(<<"x">>),
                     DictV(<<[k |-> "city", v |-> NoneV], [k |-> "zip", v |-> Num(1)]>>),
                     DictV(<<[k |-> "city", v |-> Str(<<"x">>)], [k |-> "zip", v |-> Num(1)]>>)}}
    \cup
    {<<[k |-> "plan", v |-> plan], [k |-> "extra", v |-> Num(1)],
       [k |-> "other", v |-> DictV(<<[k |-> "a", v |-> Num(1)]>>)]>> :
        plan \in {Str(<<"p">>), Str(<<"q">>)}}

\* the fields of the schemas
SchemaFields ==
    {<<[k |-> <<"email">>, v |-> FieldDefinition("string", TRUE, 2, <<>>, <<>>)],
       [k |-> <<"address">>, v |-> FieldDefinition("object", FALSE, 0, <<>>,
           <<[k |-> "city", v |-> FieldDefinition("string", TRUE, 0, <<>>, <<>>)]>>)]>>,
     <<[k |-> <<"plan">>, v |-> FieldDefinition("enum", TRUE, 0, <<Str(<<"p">>)>>, <<>>)],
       [k |-> <<"address", "city">>, v |-> FieldDefinition("string", FALSE, 0, <<>>, <<>>)],
       [k |-> <<"extra">>, v |-> FieldDefinition("integer", FALSE, 0, <<>>, <<>>)]>>,
     <<>>}

ValidateInit ==
    /\ value \in RecordDatas
    /\ transform_config \in [fields : SchemaFields, strict : BOOLEAN]
    /\ source_records = <<>>
    /\ field_mappings = <<>>
    /\ returned = <<>>
    /\ PipelineIdle
    /\ ApiIdle

\* validator.validate_record(record, schema, strict)
ValidateApply ==
    /\ Len(returned) < MaxValidations
    /\ returned' = Append(returned,
          [data |-> value,
           errors |-> validate_record(value, transform_config.fields,
                                      transform_config.strict)])
    /\ UNCHANGED <<source_records, field_mappings, value, transform_config,
                   pipeline_vars, api_vars>>

\* the caller builds the same record with two neighbouring keys, of the data or
\* of a dict in it, inserted the other way round
Swap(d, i) == [d EXCEPT ![i] = d[i + 1], ![i + 1] = d[i]]

ReorderFields ==
    /\ \/ \E i \in 1..(Len(value) - 1) : value' = Swap(value, i)
       \/ \E j \in DOMAIN value :
             /\ value[j].v[1] = "dict"
             /\ \E i \in 1..(Len(value[j].v[2]) - 1) :
                   value' = [value EXCEPT ![j].v = DictV(Swap(value[j].v[2], i))]
    /\ UNCHANGED <<source_records, field_mappings, transform_config, returned,
                   pipeline_vars, api_vars>>

ValidateNext == ValidateApply \/ ReorderFields

ValidateSpec == ValidateInit /\ [][ValidateNext]_vars

\* the set of the ValidationErrors of call i
ErrorSet(i) == {returned[i].errors[j] : j \in DOMAIN returned[i].errors}

\* the paths of the data of call i that the schema does not have and that
\* are not under meta_data
UnknownPaths(i) ==
    LET paths == get_all_field_paths(returned[i].data, <<>>)
    IN {paths[j] : j \in {n \in DOMAIN paths :
           /\ Head(paths[n]) # "meta_data"
           /\ \A f \in DOMAIN transform_config.fields :
                 transform_config.fields[f].k # <<Head(paths[n])>>}}

\* C31: every field of the record that the schema does not have and that is
\* not under meta_data is reported, as a warning when strict is false and as
\* an error when it is true, and no field under meta_data is reported
C31_UnknownFieldsReported ==
    \A i \in DOMAIN returned :
        /\ \A p \in UnknownPaths(i) :
              \E e \in ErrorSet(i) :
                  /\ e.field = p
                  /\ e.severity = (IF transform_config.strict THEN "error" ELSE "warning")
        /\ \A e \in ErrorSet(i) : Head(e.field) # "meta_data"

\* C34: the calls made on one record, whatever the insertion order of its
\* fields at each call, return the same set of ValidationErrors
C34_OrderIndependent ==
    \A i, j \in DOMAIN returned : ErrorSet(i) = ErrorSet(j)

\* two calls on two insertion orders returned their errors in two orders
C34_Witness ==
    /\ Len(returned) >= 2
    /\ returned[1].data # returned[2].data
    /\ returned[1].errors # returned[2].errors
    /\ transform_config.strict
    /\ \E e \in ErrorSet(1) : e.error_type = "required"

----------------------------------------------------------------------------
(* SchemaRegistry.validate_mapping on its own.  transform_config holds what *)
(* get_entity_schema returned for the source and for the target of the      *)
(* mapping, field_mappings the field mappings of the EntityMapping,         *)
(* returned the list of error messages.  A message is its text and the      *)
(* name it ends with.                                                       *)

\* the loop over mapping.field_mappings: the source field, or its first part,
\* is in the source schema; the first part of the target field is in the
\* target schema, or the target field begins with meta_data
field_mapping_errors(source_fields, target_fields, fms) ==
    Concat([i \in DOMAIN fms |->
        (IF /\ fms[i].source_field # None
            /\ ~DictHas(source_fields, fms[i].source_field)
            /\ ~DictHas(source_fields, <<Head(fms[i].source_field)>>)
         THEN <<<<"Source field not found", fms[i].source_field>>>>
         ELSE <<>>)
        \o (IF /\ fms[i].target_field # None
               /\ ~DictHas(target_fields, <<Head(fms[i].target_field)>>)
               /\ ~StartsWithMetaData(fms[i].target_field)
            THEN <<<<"Target field not found", fms[i].target_field>>>>
            ELSE <<>>)])

\* the loop over target_schema.fields
required_errors(target_fields, mapped_targets) ==
    Concat([i \in DOMAIN target_fields |->
        IF target_fields[i].v.required /\ target_fields[i].k \notin mapped_targets
        THEN <<<<"Required target field has no mapping", target_fields[i].k>>>>
        ELSE <<>>])

\* as validate_mapping, but mapped_targets is built from the source fields
validate_mapping_by_source(source_schema, target_schema, fms) ==
    IF source_schema.present /\ target_schema.present
    THEN field_mapping_errors(source_schema.fields, target_schema.fields, fms)
         \o required_errors(target_schema.fields,
                            {fms[i].source_field : i \in DOMAIN fms})
    ELSE <<>>

validate_mapping(source_schema, target_schema, fms) ==
    (IF source_schema.present THEN <<>> ELSE <<<<"Source schema not found", None>>>>)
    \o (IF target_schema.present THEN <<>> ELSE <<<<"Target schema not found", None>>>>)
    \o (IF source_schema.present /\ target_schema.present
        THEN field_mapping_errors(source_schema.fields, target_schema.fields, fms)
             \o required_errors(target_schema.fields,
                                {fms[i].target_field : i \in DOMAIN fms})
        ELSE <<>>)

\* what get_entity_schema returns: None, or an EntitySchema with its fields
EntitySchema(present, fields) == [present |-> present, fields |-> fields]

SourceSchemas ==
    {EntitySchema(present,
        <<[k |-> <<"email">>, v |-> FieldDefinition("string", TRUE, 0, <<>>, <<>>)],
          [k |-> <<"address">>, v |-> FieldDefinition("object", FALSE, 0, <<>>, <<>>)]>>) :
        present \in BOOLEAN}

TargetSchemas ==
    {EntitySchema(present,
        <<[k |-> <<"email">>, v |-> FieldDefinition("string", r[1], 0, <<>>, <<>>)],
          [k |-> <<"name">>, v |-> FieldDefinition("string", r[2], 0, <<>>, <<>>)],
          [k |-> <<"address">>, v |-> FieldDefinition("object", r[3], 0, <<>>, <<>>)]>>) :
        present \in BOOLEAN, r \in [1..3 -> BOOLEAN]}

\* the field mappings an EntityMapping is made of
MappingFieldPool ==
    {FieldMapping(<<"email">>, <<"email">>, "direct", "", NoneV, <<>>),
     FieldMapping(<<"email">>, <<"name">>, "direct", "", NoneV, <<>>),
     FieldMapping(<<"address">>, <<"address">>, "direct", "", NoneV, <<>>),
     FieldMapping(<<"address", "city">>, <<"address", "city">>, "direct", "", NoneV, <<>>),
     FieldMapping(None, <<"meta_data", "origin">>, "direct", "", NoneV, <<>>),
     FieldMapping(<<"email">>, <<"meta_data_extra">>, "direct", "", NoneV, <<>>),
     FieldMapping(<<"phone">>, <<"name">>, "direct", "", NoneV, <<>>),
     FieldMapping(<<"email">>, <<"ghost">>, "direct", "", NoneV, <<>>),
     FieldMapping(<<"email">>, None, "direct", "", NoneV, <<>>)}

MappingInit ==
    /\ transform_config \in [source_schema : SourceSchemas, target_schema : TargetSchemas]
    /\ field_mappings \in UNION {[1..n -> MappingFieldPool] : n \in 0..MaxFieldMappings}
    /\ source_records = <<>>
    /\ value = <<>>
    /\ returned = <<>>
    /\ PipelineIdle
    /\ ApiIdle

\* registry.validate_mapping(mapping)
MappingApply ==
    /\ returned = <<>>
    /\ returned' = <<validate_mapping(transform_config.source_schema,
                                      transform_config.target_schema, field_mappings)>>
    /\ UNCHANGED <<source_records, field_mappings, value, transform_config,
                   pipeline_vars, api_vars>>

MappingNext == MappingApply

MappingSpec == MappingInit /\ [][MappingNext]_vars

\* both schemas resolve, every source field or its first part is a field of the
\* source schema, and the first part of every target field is a field of the
\* target schema or is meta_data
AllFieldsExist ==
    /\ transform_config.source_schema.present
    /\ transform_config.target_schema.present
    /\ \A i \in DOMAIN field_mappings :
          /\ field_mappings[i].source_field # None =>
                DictHas(transform_config.source_schema.fields,
                        <<Head(field_mappings[i].source_field)>>)
          /\ field_mappings[i].target_field # None =>
                \/ Head(field_mappings[i].target_field) = "meta_data"
                \/ DictHas(transform_config.target_schema.fields,
                           <<Head(field_mappings[i].target_field)>>)

\* the required fields of the target schema that no field mapping targets
Untargeted ==
    LET fields == transform_config.target_schema.fields
    IN {fields[i].k : i \in {n \in DOMAIN fields :
           /\ fields[n].v.required
           /\ \A j \in DOMAIN field_mappings :
                 field_mappings[j].target_field # fields[n].k}}

\* C32: when both schemas resolve and the fields of the field mappings exist,
\* the errors are one per required target field that no field mapping
\* targets, each naming its field, and nothing else
C32_OneErrorPerUntargetedRequired ==
    (returned # <<>> /\ AllFieldsExist) =>
        /\ \A f \in Untargeted :
              Cardinality({i \in DOMAIN returned[1] :
                  returned[1][i] = <<"Required target field has no mapping", f>>}) = 1
        /\ \A i \in DOMAIN returned[1] :
              /\ returned[1][i][1] = "Required target field has no mapping"
              /\ returned[1][i][2] \in Untargeted

\* a mapping with existing fields left one required target field without a
\* field mapping and covered another
C32_Witness ==
    /\ returned # <<>>
    /\ AllFieldsExist
    /\ Len(field_mappings) = 2
    /\ Len(returned[1]) = 1
    /\ \E i \in DOMAIN transform_config.target_schema.fields :
          /\ transform_config.target_schema.fields[i].v.required
          /\ transform_config.target_schema.fields[i].k \notin Untargeted

----------------------------------------------------------------------------
(* SchemaRegistry.infer_schema_from_data on its own.  value is the list of *)
(* sample records, returned the fields of the inferred EntitySchema.  The  *)
(* analysis is a dict from field path to the types seen and the required   *)
(* flag; field_examples plays no part in the flag or the type.             *)

get_python_type(val) ==
    CASE val[1] = "num" -> "integer"
      [] val[1] = "list" -> "array"
      [] val[1] = "dict" -> "object"
      [] OTHER -> "string"

determine_field_type(types) ==
    CASE types = {} -> "string"
      [] "object" \in types -> "object"
      [] "array" \in types -> "array"
      [] types = {"integer"} -> "integer"
      [] types \in {{"decimal"}, {"integer", "decimal"}} -> "decimal"
      [] types = {"boolean"} -> "boolean"
      [] OTHER -> "string"

\* f"{path}[]": the last part of the path gets the suffix
ListPath(path) == [path EXCEPT ![Len(path)] = path[Len(path)] \o "[]"]

\* _analyze_record from entry i of the dict data on
RECURSIVE analyze_record(_, _, _, _)
analyze_record(data, i, prefix, analysis) ==
    IF i > Len(data) THEN analysis
    ELSE LET path == Append(prefix, data[i].k)
             val == data[i].v
             seen == IF DictHas(analysis, path) THEN analysis
                     ELSE Append(analysis,
                                 [k |-> path, v |-> [types |-> {}, required |-> TRUE]])
             was == DictGet(seen, path, <<>>)
             noted == IF val = NoneV
                      THEN DictSet(seen, path, [was EXCEPT !.required = FALSE])
                      ELSE DictSet(seen, path,
                               [was EXCEPT !.types = @ \cup {get_python_type(val)}])
             nested == CASE val[1] = "dict" -> analyze_record(val[2], 1, path, noted)
                         [] val[1] = "list" /\ val[2] # <<>> /\ val[2][1][1] = "dict" ->
                               analyze_record(val[2][1][2], 1, ListPath(path), noted)
                         [] OTHER -> noted
         IN analyze_record(data, i + 1, prefix, nested)

\* the loop over the samples
RECURSIVE analyze_samples(_, _, _)
analyze_samples(data, i, analysis) ==
    IF i > Len(data) THEN analysis
    ELSE analyze_samples(data, i + 1, analyze_record(data[i], 1, <<>>, analysis))

infer_schema_from_data(data) ==
    LET analysis == analyze_samples(data, 1, <<>>)
    IN [i \in DOMAIN analysis |->
           [k |-> analysis[i].k,
            v |-> FieldDefinition(determine_field_type(analysis[i].v.types),
                                  analysis[i].v.required, 0, <<>>, <<>>)]]

\* a sample record: email missing, null or a string; address missing, null, a
\* dict with or without a city, or a list of such dicts
Samples ==
    {email \o address :
        email \in {<<>>, <<[k |-> "email", v |-> NoneV]>>,
                   <<[k |-> "email", v |-> Str(<<"a">>)]>>},
        address \in {<<>>} \cup
            {<<[k |-> "address", v |-> a]>> :
                a \in {NoneV, DictV(<<>>),
                       DictV(<<[k |-> "city", v |-> NoneV]>>),
                       DictV(<<[k |-> "city", v |-> Str(<<"x">>)]>>),
                       ListV(<<DictV(<<[k |-> "city", v |-> Num(1)]>>)>>)}}}

InferInit ==
    /\ value \in UNION {[1..n -> Samples] : n \in 0..MaxSamples}
    /\ transform_config = <<>>
    /\ source_records = <<>>
    /\ field_mappings = <<>>
    /\ returned = <<>>
    /\ PipelineIdle
    /\ ApiIdle

\* registry.infer_schema_from_data(data, service_name, entity_name)
InferApply ==
    /\ returned = <<>>
    /\ returned' = <<infer_schema_from_data(value)>>
    /\ UNCHANGED <<source_records, field_mappings, value, transform_config,
                   pipeline_vars, api_vars>>

InferNext == InferApply

InferSpec == InferInit /\ [][InferNext]_vars

\* the value val has the field of this path, and it is not null; a part ending
\* in [] is looked up in the first element of the list
RECURSIVE PresentIn(_, _)
PresentIn(val, parts) ==
    IF parts = <<>> THEN val # NoneV
    ELSE /\ val[1] = "dict"
         /\ \E e \in DOMAIN val[2] :
               \/ /\ val[2][e].k = Head(parts)
                  /\ PresentIn(val[2][e].v, Tail(parts))
               \/ /\ val[2][e].k \o "[]" = Head(parts)
                  /\ val[2][e].v[1] = "list"
                  /\ val[2][e].v[2] # <<>>
                  /\ PresentIn(val[2][e].v[2][1], Tail(parts))

\* C33: a field inferred as required is present and not null in every sample
C33_RequiredOnlyIfAlwaysPresent ==
    returned # <<>> =>
        \A f \in DOMAIN returned[1] :
            returned[1][f].v.required =>
                \A i \in DOMAIN value : PresentIn(DictV(value[i]), returned[1][f].k)

----------------------------------------------------------------------------
(* The built-in transforms applied to None.  transform_config holds the    *)
(* name of the transform and its configuration map, a dict whose values    *)
(* are whatever the mapping file holds; source_records gives the data      *)
(* argument, the combined data of the source records.                      *)

\* the transforms that return None, or the value itself, for the value None
\* before they read their configuration
NoneOnNone ==
    {"direct", "prefix_add", "prefix_strip", "prefix_strip_and_add", "split_name",
     "truncate", "uppercase", "lowercase", "to_metadata", "merge", "array_map",
     "tier_mapping", "negate_if_positive", "negate_if_negative", "iso_to_unix",
     "unix_to_iso", "multiply", "divide", "country_code", "clean_phone",
     "address_mapping", "lookup"}

\* the keys of _register_builtin_transforms
BuiltinNames ==
    NoneOnNone \cup {"enum_map", "boolean_to_enum", "default", "coalesce",
                     "coalesce_fields", "conditional", "compile_metadata"}

\* self._get_nested_value(service_data, path): path.split raises unless path is a str
nested_value_of(h, service_data, path) ==
    IF path[1] = "str" THEN Returns(get_nested_value(h, service_data, path[2]))
    ELSE Raises

\* for service_data in data.values(): the first value of the path that is not None
RECURSIVE first_found(_, _, _, _)
first_found(h, data, path, j) ==
    IF j > Len(data) THEN Returns(NoneV)
    ELSE LET found == nested_value_of(h, Root(data[j].v), path)
         IN IF found.raised THEN Raises
            ELSE IF found.v[1] # "none" THEN found
            ELSE first_found(h, data, path, j + 1)

\* what a for loop over the value iterates: the items of a list, the keys of
\* a dict, the parts of a str; None and a number are not iterable
Iterate(val) ==
    CASE val[1] = "list" -> Returns(val[2])
      [] val[1] = "dict" -> Returns([i \in DOMAIN val[2] |-> Str(<<val[2][i].k>>)])
      [] val[1] = "str" -> Returns([i \in DOMAIN val[2] |-> Str(<<val[2][i]>>)])
      [] OTHER -> Raises

transform_coalesce(h, cfg, data) ==
    LET fallback_field == DictGet(cfg, "fallback_field", NoneV)
        suffix == DictGet(cfg, "fallback_suffix", Str(<<>>))
        found == first_found(h, data, fallback_field, 1)
    IN IF ~Truthy(h, fallback_field) \/ data = <<>> THEN Returns(NoneV)
       ELSE IF found.raised \/ found.v[1] = "none" THEN found
       ELSE IF Truthy(h, suffix)
       THEN Returns(Str(StrOf(h, found.v) \o StrOf(h, suffix)))
       ELSE found

\* the loop of coalesce_fields from field i on
RECURSIVE coalesce_fields_loop(_, _, _, _)
coalesce_fields_loop(h, fields, data, i) ==
    IF i > Len(fields) THEN Returns(NoneV)
    ELSE LET found == first_found(h, data, fields[i], 1)
         IN IF found.raised \/ found.v[1] # "none" THEN found
            ELSE coalesce_fields_loop(h, fields, data, i + 1)

transform_coalesce_fields(h, cfg, data) ==
    LET fallback_fields == Iterate(DictGet(cfg, "fallback_fields", ListV(<<>>)))
    IN IF fallback_fields.raised THEN Raises
       ELSE coalesce_fields_loop(h, fallback_fields.v, data, 1)

\* "key" in condition: a key of a dict, a part of a str, an item of a list
Contains(condition, key) ==
    CASE condition[1] = "dict" -> DictHas(condition[2], key)
      [] condition[1] = "str" -> \E i \in DOMAIN condition[2] : condition[2][i] = key
      [] condition[1] = "list" -> \E i \in DOMAIN condition[2] : condition[2][i] = Str(<<key>>)
      [] OTHER -> FALSE

\* the loop of conditional from condition i on, for the value None: a
\* condition that is None or a number cannot be searched, and one that is
\* no dict cannot be indexed by a key
RECURSIVE conditional_loop(_, _, _, _)
conditional_loop(h, conditions, data, i) ==
    IF i > Len(conditions) THEN Returns(NoneV)
    ELSE LET condition == conditions[i]
             isdict == condition[1] = "dict"
             get(key) == DictGet(condition[2], key, NoneV)
         IN IF condition[1] \in {"none", "num"} THEN Raises
            ELSE IF Contains(condition, "value") /\ ~isdict THEN Raises
            ELSE IF Contains(condition, "value")
                    /\ StrOf(h, NoneV) = StrOf(h, get("value"))
            THEN Returns(get("result"))
            ELSE IF Contains(condition, "if") /\ ~isdict THEN Raises
            ELSE IF Contains(condition, "if")
                    /\ (get("if")[1] = "str" => evaluate_condition(h, get("if")[2], data))
            THEN Returns(get("then"))
            ELSE IF Contains(condition, "default") /\ ~isdict THEN Raises
            ELSE IF Contains(condition, "default") THEN Returns(get("default"))
            ELSE conditional_loop(h, conditions, data, i + 1)

transform_conditional(h, cfg, data) ==
    LET conditions == Iterate(DictGet(cfg, "conditions", ListV(<<>>)))
    IN IF conditions.raised THEN Raises
       ELSE conditional_loop(h, conditions.v, data, 1)

\* the loop of compile_metadata from item i of source_fields on
RECURSIVE compile_metadata_loop(_, _, _, _, _)
compile_metadata_loop(h, source_fields, data, i, result) ==
    IF i > Len(source_fields) THEN Returns(IF result = <<>> THEN NoneV ELSE DictV(result))
    ELSE LET found == first_found(h, data, source_fields[i].v, 1)
         IN IF found.raised THEN Raises
            ELSE compile_metadata_loop(h, source_fields, data, i + 1,
                     IF found.v[1] # "none"
                     THEN DictSet(result, source_fields[i].k, found.v) ELSE result)

\* source_fields.items() raises unless source_fields is a dict
transform_compile_metadata(h, cfg, data) ==
    LET source_fields == DictGet(cfg, "source_fields", DictV(<<>>))
    IN IF source_fields[1] # "dict" THEN Raises
       ELSE compile_metadata_loop(h, source_fields[2], data, 1, <<>>)

\* self._builtin_transforms[name](None, config, data, ctx)
transform_none(name, h, cfg, data) ==
    CASE name \in NoneOnNone -> Returns(NoneV)
      [] name = "enum_map" -> Returns(DictGet(cfg, "default", NoneV))
      [] name = "boolean_to_enum" ->
            Returns(IF Truthy(h, DictGet(cfg, "false_value", NoneV))
                    THEN DictGet(cfg, "false_value", NoneV)
                    ELSE DictGet(cfg, "false", NoneV))
      [] name = "default" -> Returns(DictGet(cfg, "value", NoneV))
      [] name = "coalesce" -> transform_coalesce(h, cfg, data)
      [] name = "coalesce_fields" -> transform_coalesce_fields(h, cfg, data)
      [] name = "conditional" -> transform_conditional(h, cfg, data)
      [] name = "compile_metadata" -> transform_compile_metadata(h, cfg, data)

\* configuration maps as a mapping file can hold them
ConfigMaps ==
    {<<>>,
     <<[k |-> "default", v |-> Str(<<"x">>)]>>,
     <<[k |-> "value", v |-> Num(0)]>>,
     <<[k |-> "false_value", v |-> Str(<<"no">>)]>>,
     <<[k |-> "false_value", v |-> Str(<<>>)], [k |-> "false", v |-> Str(<<"off">>)]>>,
     <<[k |-> "fallback_field", v |-> Str(<<"email">>)]>>,
     <<[k |-> "fallback_field", v |-> Str(<<"email">>)],
       [k |-> "fallback_suffix", v |-> Str(<<"x">>)]>>,
     <<[k |-> "fallback_field", v |-> Num(5)]>>,
     <<[k |-> "fallback_fields", v |-> ListV(<<Str(<<"ghost">>), Str(<<"email">>)>>)]>>,
     <<[k |-> "fallback_fields", v |-> Num(5)]>>,
     <<[k |-> "conditions", v |->
          ListV(<<DictV(<<[k |-> "value", v |-> NoneV],
                          [k |-> "result", v |-> Str(<<"r">>)]>>)>>)]>>,
     <<[k |-> "conditions", v |->
          ListV(<<DictV(<<[k |-> "if", v |-> Str(<<"email", "exists">>)],
                          [k |-> "then", v |-> Str(<<"t">>)]>>),
                  DictV(<<[k |-> "default", v |-> Str(<<"d">>)]>>)>>)]>>,
     <<[k |-> "conditions", v |-> ListV(<<Str(<<"value">>)>>)]>>,
     <<[k |-> "source_fields", v |-> DictV(<<[k |-> "origin", v |-> Str(<<"email">>)]>>)]>>,
     <<[k |-> "source_fields", v |-> ListV(<<Str(<<"email">>)>>)]>>}

NoneInit ==
    /\ source_records \in SourceRecordLists
    /\ transform_config \in [transform : BuiltinNames, config : ConfigMaps]
    /\ value = NoneV
    /\ field_mappings = <<>>
    /\ returned = <<>>
    /\ PipelineIdle
    /\ ApiIdle

\* transform_func(value, field_mapping.transform_config, combined_data, context)
NoneApply ==
    /\ returned = <<>>
    /\ returned' = <<transform_none(transform_config.transform, source_records,
                                    transform_config.config,
                                    combined_data_loop(source_records, 1, <<>>))>>
    /\ UNCHANGED <<source_records, field_mappings, value, transform_config,
                   pipeline_vars, api_vars>>

NoneNext == NoneApply

NoneSpec == NoneInit /\ [][NoneNext]_vars

\* C35: no built-in transform raises for the value None, whatever its
\* configuration map; enum_map and default return the configured default or
\* None, boolean_to_enum the false label, the others listed None
C35_NoRaiseOnNone ==
    returned # <<>> =>
        /\ ~returned[1].raised
        /\ transform_config.transform \in NoneOnNone => returned[1].v = NoneV
        /\ transform_config.transform = "enum_map" =>
              returned[1].v = DictGet(transform_config.config, "default", NoneV)
        /\ transform_config.transform = "default" =>
              returned[1].v = DictGet(transform_config.config, "value", NoneV)

----------------------------------------------------------------------------
(* The transformation phase, record by record *)

\* C36: when transform_record raises for a source record, the step counts one
\* more record processed and one more failed, gets one error entry with the
\* id of the record, and, unless that entry exhausts the error budget, goes
\* on with the next source record of the entity mapping
C36_RecordFailureIsLocal ==
    [][(transform_calls' # transform_calls /\ acc' = acc) =>
          LET n == Len(run.steps)
              before == run.steps[n]
              after == run'.steps[n]
              record == SourceRecordsOf(mapping.entity_mappings[idx])[pos]
              added == SubSeq(after.errors, Len(before.errors) + 1, Len(after.errors))
          IN /\ after.records_processed = before.records_processed + 1
             /\ after.records_failed = before.records_failed + 1
             /\ after.records_succeeded = before.records_succeeded
             /\ added # <<>>
             /\ added[1].record_id = record.id
             /\ \A i \in 2..Len(added) : added[i].record_id = None
             /\ Len(before.errors) + 1 < config.max_errors =>
                   /\ pc' = "transforming"
                   /\ idx' = idx
                   /\ pos' = pos + 1
                   /\ after.status = "transforming"]_vars

\* the first source record of an entity mapping failed and the second one
\* was transformed after it
C36_Witness ==
    /\ pc = "transforming"
    /\ pos = 3
    /\ Len(acc) = 1
    /\ CurStep(run).records_processed = 2
    /\ CurStep(run).records_failed = 1
    /\ LET records == SourceRecordsOf(mapping.entity_mappings[idx])
       IN /\ CurStep(run).errors[1].record_id = records[1].id
          /\ acc[1].id = records[2].source_service \o records[2].id

\* the steps of the transformation phase, one per entity mapping, in order
TransformSteps == SelectSeq(run.steps, LAMBDA s : s.name = "Transform")

\* the position of the entity mapping of this name
MappingIndex(name) ==
    CHOOSE m \in DOMAIN mapping.entity_mappings : mapping.entity_mappings[m].name = name

\* the transform_record call c returned: its step has no error entry for the record
CallReturned(c) ==
    \A e \in DOMAIN TransformSteps[MappingIndex(c.mapping)].errors :
        TransformSteps[MappingIndex(c.mapping)].errors[e].record_id # c.record

\* the working set holds, under the target key of the mapping of call c, the
\* record transformed from the source record of c
InWorkingSet(c) ==
    LET em == mapping.entity_mappings[MappingIndex(c.mapping)]
        records == SourceRecordsOf(em)
        source == records[CHOOSE i \in DOMAIN records : records[i].id = c.record]
        stored == DictGet(transformed, Key(em.target_service, em.target_entity), <<>>)
    IN \E j \in DOMAIN stored : stored[j].id = source.source_service \o source.id

\* C37: when the validation phase starts, the working set holds the
\* TransformedRecord of every source record whose transform_record call returned
C37_NoTransformedRecordLost ==
    (pc = "validating" /\ idx = 1) =>
        \A c \in DOMAIN transform_calls :
            CallReturned(transform_calls[c]) => InWorkingSet(transform_calls[c])

----------------------------------------------------------------------------
(* The counters of the steps.  The extractors catch their own failures:    *)
(* extract() then returns get_extraction_result(all_records) with the      *)
(* error added, and with no record when nothing had been read.             *)

\* extract() returned an ExtractionResult with one error and no record
ExtractCaughtFailure ==
    ExtractWith({[raises |-> FALSE, n |-> 0, total_extracted |-> 0,
                  errors |-> <<ErrorEntry(None, "extraction")>>]})

AccountingNext == Next \/ ExtractCaughtFailure

AccountingSpec == Init /\ [][AccountingNext]_vars

\* C38: in every step the three counters are not negative and
\* records_processed = records_succeeded + records_failed
C38_StepCountersConsistent ==
    \A i \in DOMAIN run.steps :
        /\ run.steps[i].records_processed >= 0
        /\ run.steps[i].records_succeeded >= 0
        /\ run.steps[i].records_failed >= 0
        /\ run.steps[i].records_processed =
              run.steps[i].records_succeeded + run.steps[i].records_failed

----------------------------------------------------------------------------
(* Failing fast *)

\* the steps of the extraction, transformation and loading phases that have failed
FailedPhaseSteps(r) ==
    {i \in DOMAIN r.steps : /\ r.steps[i].name \in {"Extract", "Transform", "Load"}
                            /\ r.steps[i].status = "failed"}

\* C39: with continue_on_error false, a failed extraction, transformation or
\* loading step is the last step of the run, run_migration has returned and
\* it returned with the status failed, so that a completed run has no such
\* step; and once run_migration has returned, every step is completed or
\* failed and has completed_at set
C39_FailFast ==
    /\ [](~config.continue_on_error =>
            /\ \A i \in FailedPhaseSteps(run) : i = Len(run.steps) /\ pc = "done"
            /\ run.status = "completed" => FailedPhaseSteps(run) = {})
    /\ [](pc = "done" =>
            \A i \in DOMAIN run.steps :
                /\ run.steps[i].status \in {"completed", "failed"}
                /\ run.steps[i].completed_at)
    /\ [][(pc # "done" /\ pc' = "done" /\ ~config.continue_on_error
            /\ FailedPhaseSteps(run') # {}) => run'.status = "failed"]_vars

\* with continue_on_error false a transformation step failed after an
\* extraction step had extracted records, and run_migration returned
C39_Witness ==
    /\ pc = "done"
    /\ ~config.continue_on_error
    /\ run.status = "failed"
    /\ CurStep(run).name = "Transform"
    /\ CurStep(run).status = "failed"
    /\ \E i \in DOMAIN run.steps :
          run.steps[i].status = "completed" /\ run.steps[i].records_processed > 0

----------------------------------------------------------------------------
(* The key of the working set on its own.  A name is the sequence of its   *)
(* parts between underscores.  value is the target service and entity of   *)
(* an entity mapping, returned the key the transformation phase stores the *)
(* records under and then the names the later phases split it into.        *)

NameParts == {"chargebee", "sales", "force", "customer"}

Names == UNION {[1..n -> NameParts] : n \in 1..MaxNameParts}

KeyInit ==
    /\ value \in [target_service : Names, target_entity : Names]
    /\ returned = <<>>
    /\ source_records = <<>>
    /\ field_mappings = <<>>
    /\ transform_config = <<>>
    /\ PipelineIdle
    /\ ApiIdle

\* _run_transformation: target_key = f"{target_service}_{target_entity}"
StoreKey ==
    /\ returned = <<>>
    /\ returned' = <<Key(value.target_service, value.target_entity)>>
    /\ UNCHANGED <<source_records, field_mappings, value, transform_config,
                   pipeline_vars, api_vars>>

\* _run_validation and _run_loading: parts = key.split("_")
SplitKey ==
    /\ Len(returned) = 1
    /\ returned' = Append(returned,
          [target_service |-> KeyService(returned[1]),
           target_entity |-> KeyEntity(returned[1])])
    /\ UNCHANGED <<source_records, field_mappings, value, transform_config,
                   pipeline_vars, api_vars>>

KeyNext == StoreKey \/ SplitKey

KeySpec == KeyInit /\ [][KeyNext]_vars

\* C40: the names split from the key are the target service and entity the
\* records were stored with, and no other pair of names has the same key
C40_KeyRoundTrip ==
    Len(returned) = 2 =>
        /\ returned[2] = value
        /\ \A service \in Names, entity \in Names :
              Key(service, entity) = returned[1] =>
                  service = value.target_service /\ entity = value.target_entity

====
